---- MODULE Spec2Model ----
(***************************************************************************)
(* The streaming channel writer of mefwriter: write_mef_channel_data,      *)
(* flush_mef_channel, close_mef_channel, process_filled_block,             *)
(* check_for_new_segment and update_metadata, acting on one CHANNEL_STATE  *)
(* and on the files of its segments.                                        *)
(*                                                                         *)
(* The repository holds two copies of the writer: src/unnamed/part_001     *)
(* (2021) and src/write_mef_channel.c (2020).  They differ, in the channel *)
(* writer, in three places (the first next_segment_start_time, the         *)
(* end_time extrapolation, the reset of start_sample at a rollover); the   *)
(* variable source_version says which copy runs.                           *)
(*                                                                         *)
(* Time.  Timestamps are microseconds in 64-bit integers; the code         *)
(* truncates a difference of two of them to a 32-bit int (abs).  All times *)
(* of the model are counted in ticks of MicrosPerTick microseconds and all *)
(* timestamps fed to the writer are multiples of a tick, so that a 32-bit  *)
(* int spans 2^27 ticks and every comparison of the code is exact.         *)
(*                                                                         *)
(* The caller delivers up to MaxSamples samples in calls of up to          *)
(* MaxPackets packets, flushes at up to MaxFlushes points of the stream    *)
(* and closes the channel once.  ingested and flushedAt are history        *)
(* variables: what the caller has delivered and where it has flushed.      *)
(***************************************************************************)
EXTENDS Integers, Sequences, FiniteSets, TLC

(***************************************************************************)
(* Units and program constants                                             *)
(***************************************************************************)
\* microseconds per tick: the largest power of two dividing the threshold
MicrosPerTick == 2 ^ 5
\* write_mef_channel.h: #define DISCONTINUITY_TIME_THRESHOLD 100000
DISCONTINUITY_TIME_THRESHOLD == 100000
ThresholdTicks == DISCONTINUITY_TIME_THRESHOLD \div MicrosPerTick
TicksPerSecond == 1000000 \div MicrosPerTick
\* number of ticks after which a 64-bit difference wraps when cut to 32 bits
IntModulus == 2 ^ (32 - 5)
INT_MIN == -(IntModulus \div 2)

\* meflib.h
UNIVERSAL_HEADER_BYTES == 1024
TIME_SERIES_INDEX_BYTES == 56
RED_BLOCK_HEADER_BYTES == 304
\* UUTC_NO_ENTRY is the least 64-bit integer: a value no timestamp takes
UUTC_NO_ENTRY == -2147483647
METADATA_RECORDING_DURATION_NO_ENTRY == -1
\* TIME_SERIES_METADATA_..._NATIVE_SAMPLE_VALUE_NO_ENTRY is NaN
NaN == [isnan |-> TRUE, v |-> 0]
Num(x) == [isnan |-> FALSE, v |-> x]

(***************************************************************************)
(* Bounds of the model and the inputs it enumerates                        *)
(***************************************************************************)
MaxSamples == 3
MaxPackets == 2
\* most points of the sample stream at which the caller flushes
MaxFlushes == 1
\* sample period in ticks (sampling_frequency = 10^6 / (SamplePeriod * 32) Hz)
SamplePeriod == 1000
\* samples per block interval: block_interval = SamplesPerBlock sample periods
SamplesPerBlock == 2
\* the non-zero num_secs_per_segment that initialize is given
SegSecs == 1

BlockInterval == SamplesPerBlock * SamplePeriod
SegTicks == SegSecs * TicksPerSecond
\* first timestamps: the epoch itself, and a time later than one segment
FirstTime == SegTicks + 10 * SamplePeriod
\* gaps between consecutive timestamps: one sample period, two (a sample
\* was lost), exactly the discontinuity threshold, a long pause shorter than
\* a segment, and 2^32 us
LostSampleGap == 2 * SamplePeriod
LongGap == SegTicks - SamplePeriod - (SamplePeriod \div 4)
Gaps == {SamplePeriod, LostSampleGap, ThresholdTicks, LongGap, IntModulus}
\* the i-th sample the caller delivers (pairwise distinct for i < 23)
Sample(i) == ((7 * i) % 23) - 11

VARIABLES source_version, cs, md2, md3, uh, disk, MEF_globals, dirs, pc, ingested, flushedAt,
          annotation_state, records, apc, mefd, callers, other, alone, emitters

\* the channel and what it is observed by; the records (annotations) side
channelVars == <<cs, md2, md3, uh, disk, MEF_globals, dirs, pc, ingested, flushedAt>>
recordVars == <<annotation_state, records, apc>>
\* the session's manifest and the threads that are creating channels
manifestVars == <<mefd, callers>>
\* a second channel of the session, and the first channel as it is when
\* it is written without the second; the threads in process_filled_block
pairVars == <<other, alone, emitters>>

vars == <<source_version, cs, md2, md3, uh, disk, MEF_globals, dirs, pc, ingested, flushedAt,
          annotation_state, records, apc, mefd, callers, other, alone, emitters>>

Versions == {"part_001", "write_mef_channel_c"}

(***************************************************************************)
(* Helpers                                                                 *)
(***************************************************************************)
RECURSIVE SumSeq(_)
SumSeq(s) == IF s = <<>> THEN 0 ELSE Head(s) + SumSeq(Tail(s))

RECURSIVE Flatten(_)
Flatten(ss) == IF ss = <<>> THEN <<>> ELSE Head(ss) \o Flatten(Tail(ss))

Last(s) == s[Len(s)]
Max2(a, b) == IF a > b THEN a ELSE b
MinOf(s) == CHOOSE x \in {s[i] : i \in 1..Len(s)} : \A j \in 1..Len(s) : x <= s[j]
MaxOf(s) == CHOOSE x \in {s[i] : i \in 1..Len(s)} : \A j \in 1..Len(s) : x >= s[j]

\* (int) of a 64-bit difference d, as abs() receives it
ToInt(d) == LET m == d % IntModulus IN IF m >= IntModulus \div 2 THEN m - IntModulus ELSE m
\* abs(int): abs(INT_MIN) has no int value; the builds return INT_MIN
abs(d) == LET i == ToInt(d) IN IF i = INT_MIN THEN INT_MIN ELSE IF i < 0 THEN -i ELSE i


(***************************************************************************)
(* Collaborators (meflib): the RED codec and the time anonymization        *)
(***************************************************************************)
\* MEF_globals->recording_time_offset_mode: sine_test.c and
\* initialize_meflib_dll set RTO_IGNORE, the mode this development covers
recording_time_offset_mode == "RTO_IGNORE"
RTO_on == recording_time_offset_mode \in {"RTO_APPLY", "RTO_APPLY_ON_OUTPUT"}

\* MEF_globals->recording_time_offset before an offset has been generated
MEF_GLOBALS_RECORDING_TIME_OFFSET_DEFAULT == 0
\* the length of the day the offset is taken from, scaled down
DayTicks == 4 * TicksPerSecond
\* "-6.0, // GMT offset" of the channel
gmt_offset_in_hours == -6

\* generate_recording_time_offset(recording_start_time_uutc, GMT_offset):
\* derives the session's offset from the timestamp (the start of its day)
\* and stores it and the GMT offset in the globals
generate_recording_time_offset(globals, recording_start_time_uutc, GMT_offset) ==
    [globals EXCEPT
        !.recording_time_offset = recording_start_time_uutc - (recording_start_time_uutc % DayTicks),
        !.GMT_offset = GMT_offset]

\* "only care about generating offset times if this is a brand-new
\* session" and the offset is still the default
OffsetWanted(mode, if_appending, globals) ==
    /\ if_appending = 0
    /\ mode \in {"RTO_APPLY", "RTO_APPLY_ON_OUTPUT"}
    /\ globals.recording_time_offset = MEF_GLOBALS_RECORDING_TIME_OFFSET_DEFAULT

\* an offset generated whatever the mode is
GeneratedOffset_WhateverTheMode(mode, if_appending, globals, block_hdr_time) ==
    IF /\ if_appending = 0
       /\ globals.recording_time_offset = MEF_GLOBALS_RECORDING_TIME_OFFSET_DEFAULT
    THEN generate_recording_time_offset(globals, block_hdr_time, gmt_offset_in_hours * 3600)
    ELSE globals

\* the globals after the test and the generation at the head of
\* process_filled_block
GeneratedOffset(mode, if_appending, globals, block_hdr_time) ==
    IF OffsetWanted(mode, if_appending, globals)
    THEN generate_recording_time_offset(globals, block_hdr_time, gmt_offset_in_hours * 3600)
    ELSE globals

\* RED_encode: the block the codec builds from the buffer: the header fields
\* the writer set before the call, the discontinuity bit in flags, and the
\* sizes (one difference byte per sample after the block header)
RED_encode(data, discontinuity, start_time) ==
    [start_time        |-> start_time,
     number_of_samples |-> Len(data),
     samples           |-> data,
     flags             |-> IF discontinuity THEN 1 ELSE 0,
     difference_bytes  |-> Len(data),
     block_bytes       |-> RED_BLOCK_HEADER_BYTES + Len(data)]

\* a bit shift that cuts the quotient instead of rounding it
BitShift_Truncating(x) == IF x >= 0 THEN x \div 4 ELSE -((0 - x) \div 4)

\* the bit shift of process_filled_block: x / 4.0 +- 0.5 cut to an int
BitShift(x) == IF x >= 0 THEN (x + 2) \div 4 ELSE -((2 - x) \div 4)

\* The CRC-32 of meflib, taken as free of collisions: a CRC is the string of
\* bytes it has covered, so that two CRCs are equal exactly when the same
\* bytes went in, in the same order.  A byte string is a sequence whose
\* elements are the units the writer hands over (a block, an index entry, a
\* header, a record).
CRC_START_VALUE == <<>>
CRC_update(bytes, crc) == crc \o bytes
CRC_calculate(bytes) == CRC_update(bytes, CRC_START_VALUE)

\* a CRC field of memory from calloc or memset(0) that nothing has set
ZeroCRC == <<[unit |-> "zero"]>>

\* raw_data + CRC_BYTES, UNIVERSAL_HEADER_BYTES - CRC_BYTES: the universal
\* header behind its first field, header_CRC
HeaderBytesAfterCRC(h) == <<[f \in DOMAIN h \ {"header_CRC"} |-> h[f]]>>

\* write_MEF_file of a file that is a universal header only: the header goes
\* out with its header CRC calculated
write_MEF_file(h) == [h EXCEPT !.header_CRC = CRC_calculate(HeaderBytesAfterCRC(h))]

(***************************************************************************)
(* update_metadata: rewrite the metadata file and both universal headers   *)
(***************************************************************************)
\* an update that writes the two headers with the header CRC they had
update_metadata_StaleHeaderCRC(W) ==
    LET k == Len(W.disk)
    IN  [W EXCEPT !.disk[k].meta = [written |-> TRUE, header |-> W.uh.meta, md2 |-> W.md2,
                                   md3 |-> W.md3],
                  !.disk[k].data.header = W.uh.data,
                  !.disk[k].data.cursor = W.cs.data_file_offset,
                  !.disk[k].inds.header = W.uh.inds,
                  !.disk[k].inds.cursor = W.cs.inds_file_offset]

\* an update_metadata that leaves the files positioned behind the headers it
\* has rewritten
update_metadata_NoSeekBack(W) ==
    LET k == Len(W.disk)
        inds == [W.uh.inds EXCEPT !.header_CRC = CRC_calculate(HeaderBytesAfterCRC(W.uh.inds))]
        data == [W.uh.data EXCEPT !.header_CRC = CRC_calculate(HeaderBytesAfterCRC(W.uh.data))]
    IN  [W EXCEPT !.disk[k].meta = [written |-> TRUE, header |-> W.uh.meta, md2 |-> W.md2,
                                   md3 |-> W.md3],
                  !.uh.inds = inds,
                  !.uh.data = data,
                  !.disk[k].data.header = data,
                  !.disk[k].data.cursor = UNIVERSAL_HEADER_BYTES,
                  !.disk[k].inds.header = inds,
                  !.disk[k].inds.cursor = UNIVERSAL_HEADER_BYTES]

\* the headers are written at offset 0 and the files are positioned again
\* at data_file_offset and inds_file_offset
update_metadata(W) ==
    LET k == Len(W.disk)
        inds == [W.uh.inds EXCEPT !.header_CRC = CRC_calculate(HeaderBytesAfterCRC(W.uh.inds))]
        data == [W.uh.data EXCEPT !.header_CRC = CRC_calculate(HeaderBytesAfterCRC(W.uh.data))]
    IN  [W EXCEPT !.disk[k].meta = [written |-> TRUE, header |-> W.uh.meta, md2 |-> W.md2,
                                   md3 |-> W.md3],
                  !.uh.inds = inds,
                  !.uh.data = data,
                  !.disk[k].data.header = data,
                  !.disk[k].data.cursor = W.cs.data_file_offset,
                  !.disk[k].inds.header = inds,
                  !.disk[k].inds.cursor = W.cs.inds_file_offset]

(***************************************************************************)
(* check_for_new_segment                                                   *)
(***************************************************************************)
METADATA_FILE_BYTES == 16384

\* generate_UUID: 16 random bytes; the value drawn for level n, no two draws
\* alike
generate_UUID(n) == [drawn_for |-> n]

NewSegmentFiles(h) ==
    [segment_number |-> h.data.segment_number,
     closed |-> FALSE,
     data |-> [header |-> h.data, blocks |-> <<>>, cursor |-> UNIVERSAL_HEADER_BYTES],
     inds |-> [header |-> h.inds, entries |-> <<>>, cursor |-> UNIVERSAL_HEADER_BYTES],
     meta |-> [written |-> FALSE, header |-> h.meta, md2 |-> <<>>, md3 |-> <<>>]]

\* a rollover that keeps writing at the old data file offset
RolloverChannelReset_KeepsOffset(ver, c) ==
    [c EXCEPT !.next_segment_start_time = @ + c.num_secs_per_segment * TicksPerSecond,
              !.start_sample = 0,
              !.inds_file_offset = UNIVERSAL_HEADER_BYTES]

\* "do internal channel_state variable resets"; the 2020 copy leaves
\* start_sample as it is
RolloverChannelReset(ver, c) ==
    LET c1 == [c EXCEPT !.next_segment_start_time =
                            IF RTO_on THEN @ - c.num_secs_per_segment * TicksPerSecond
                                      ELSE @ + c.num_secs_per_segment * TicksPerSecond,
                        !.discont_contiguous_blocks = 0,
                        !.discont_contiguous_samples = 0,
                        !.discont_contiguous_bytes = 0,
                        !.number_of_index_entries = 0,
                        !.number_of_samples = 0,
                        !.data_file_offset = UNIVERSAL_HEADER_BYTES,
                        !.inds_file_offset = UNIVERSAL_HEADER_BYTES]
    IN  IF ver = "part_001" THEN [c1 EXCEPT !.start_sample = 0] ELSE c1

\* a rollover that carries number_of_samples over into the new segment
RolloverMetadataReset_KeepsSamples(m) ==
    [m EXCEPT !.recording_duration = METADATA_RECORDING_DURATION_NO_ENTRY,
              !.start_sample = @ + m.number_of_samples,
              !.number_of_blocks = 0,
              !.number_of_discontinuities = 0]

\* a rollover that starts the new segment's samples where the old one began
RolloverMetadataReset_KeepsStartSample(m) ==
    [m EXCEPT !.recording_duration = METADATA_RECORDING_DURATION_NO_ENTRY,
              !.maximum_native_sample_value = NaN,
              !.minimum_native_sample_value = NaN,
              !.number_of_samples = 0,
              !.number_of_blocks = 0,
              !.maximum_block_bytes = 0,
              !.maximum_block_samples = 0,
              !.maximum_difference_bytes = 0,
              !.number_of_discontinuities = 0,
              !.maximum_contiguous_blocks = 0,
              !.maximum_contiguous_block_bytes = 0,
              !.maximum_contiguous_samples = 0]

RolloverMetadataReset(m) ==
    [m EXCEPT !.recording_duration = METADATA_RECORDING_DURATION_NO_ENTRY,
              !.maximum_native_sample_value = NaN,
              !.minimum_native_sample_value = NaN,
              !.start_sample = @ + m.number_of_samples,
              !.number_of_samples = 0,
              !.number_of_blocks = 0,
              !.maximum_block_bytes = 0,
              !.maximum_block_samples = 0,
              !.maximum_difference_bytes = 0,
              !.number_of_discontinuities = 0,
              !.maximum_contiguous_blocks = 0,
              !.maximum_contiguous_block_bytes = 0,
              !.maximum_contiguous_samples = 0]

NextSegmentHeaders(uh0, start_time) ==
    LET level == generate_UUID(uh0.data.segment_number + 1)
    IN  [data |-> [uh0.data EXCEPT !.segment_number = @ + 1,
                                   !.level_UUID = level,
                                   !.start_time = start_time,
                                   !.end_time = start_time,
                                   !.number_of_entries = 0,
                                   !.maximum_entry_size = 0],
         inds |-> [uh0.inds EXCEPT !.segment_number = @ + 1,
                                   !.level_UUID = level,
                                   !.start_time = start_time,
                                   !.end_time = start_time,
                                   !.number_of_entries = 0,
                                   !.maximum_entry_size = TIME_SERIES_INDEX_BYTES],
         meta |-> [uh0.meta EXCEPT !.segment_number = @ + 1,
                                   !.level_UUID = level,
                                   !.start_time = start_time,
                                   !.end_time = start_time,
                                   !.number_of_entries = 1,
                                   !.maximum_entry_size = METADATA_FILE_BYTES]]

\* the data and the index file are written before their body CRC is set
\* back; the metadata file is only opened
WrittenSegmentHeaders(uh1) ==
    [data |-> write_MEF_file(uh1.data),
     inds |-> write_MEF_file(uh1.inds),
     meta |-> uh1.meta]

BodyCRCsReset(written) ==
    [data |-> [written.data EXCEPT !.body_CRC = CRC_START_VALUE],
     inds |-> [written.inds EXCEPT !.body_CRC = CRC_START_VALUE],
     meta |-> [written.meta EXCEPT !.body_CRC = CRC_START_VALUE]]

\* the rest of the rollover, W0 being the channel after update_metadata and
\* written the headers of the new segment's files as they went to disk
OpenNextSegment(W0, written) ==
    [W0 EXCEPT !.disk = Append([W0.disk EXCEPT ![Len(W0.disk)].closed = TRUE],
                               NewSegmentFiles(written)),
               !.dirs = @ \cup {<<"segd", written.data.segment_number>>},
               !.uh = BodyCRCsReset(written),
               !.md2 = RolloverMetadataReset(W0.md2),
               !.cs = RolloverChannelReset(W0.ver, W0.cs)]

RolloverAfterUpdate(W0, start_time) ==
    OpenNextSegment(W0, WrittenSegmentHeaders(NextSegmentHeaders(W0.uh, start_time)))

Rollover(W, start_time) == RolloverAfterUpdate(update_metadata(W), start_time)

\* a check that does not wait for the first block to be written
check_for_new_segment_NoFirstBlockTest(W, start_time) ==
    IF RTO_on /\ start_time > W.cs.next_segment_start_time THEN W
    ELSE IF ~RTO_on /\ start_time < W.cs.next_segment_start_time THEN W
    ELSE Rollover(W, start_time)

check_for_new_segment(W, start_time) ==
    IF W.cs.next_segment_start_time = 0 THEN W
    ELSE IF RTO_on /\ start_time > W.cs.next_segment_start_time THEN W
    ELSE IF ~RTO_on /\ start_time < W.cs.next_segment_start_time THEN W
    ELSE Rollover(W, start_time)


(***************************************************************************)
(* process_filled_block                                                    *)
(***************************************************************************)
\* "set start time for next segment" on the first block of the channel; the
\* 2020 copy subtracts whatever the anonymization mode is
FirstNextSegmentStart(ver, start_time, secs) ==
    IF ver = "part_001"
    THEN IF RTO_on THEN start_time - secs * TicksPerSecond
                   ELSE start_time + secs * TicksPerSecond
    ELSE start_time - secs * TicksPerSecond

\* the time the samples of the block span: N sample periods in part_001,
\* N + 1 in the 2020 copy
BlockDuration(ver, n, period) ==
    IF ver = "part_001" THEN n * period ELSE (n + 1) * period

\* maximum_native_sample_value / minimum_native_sample_value of md2
NativeMax(m, lo, hi) ==
    LET t == IF m.units_conversion_factor >= 0 THEN hi * m.units_conversion_factor
                                                ELSE lo * m.units_conversion_factor
        cur == m.maximum_native_sample_value
    IN  IF cur.isnan THEN Num(t) ELSE IF t > cur.v THEN Num(t) ELSE cur

NativeMin(m, lo, hi) ==
    LET t == IF m.units_conversion_factor >= 0 THEN lo * m.units_conversion_factor
                                                ELSE hi * m.units_conversion_factor
        cur == m.minimum_native_sample_value
    IN  IF cur.isnan THEN Num(t) ELSE IF t < cur.v THEN Num(t) ELSE cur

\* the index entry packed into temp_time_series_index
IndexEntry(c, blk, lo, hi) ==
    [file_offset          |-> c.data_file_offset,
     start_time           |-> blk.start_time,
     start_sample         |-> c.start_sample,
     number_of_samples    |-> blk.number_of_samples,
     block_bytes          |-> blk.block_bytes,
     maximum_sample_value |-> hi,
     minimum_sample_value |-> lo,
     flags                |-> blk.flags]

\* "update discontinuity index" and the fields for next time
BlockChannelUpdate(c, blk, discontinuity_flag) ==
    [c EXCEPT !.inds_file_offset = @ + TIME_SERIES_INDEX_BYTES,
              !.discont_contiguous_blocks =
                  IF discontinuity_flag = 1 THEN 1 ELSE @ + 1,
              !.discont_contiguous_samples =
                  IF discontinuity_flag = 1 THEN blk.number_of_samples
                                            ELSE @ + blk.number_of_samples,
              !.discont_contiguous_bytes =
                  IF discontinuity_flag = 1 THEN blk.block_bytes ELSE @ + blk.block_bytes,
              !.data_file_offset = @ + blk.block_bytes,
              !.start_sample = @ + blk.number_of_samples,
              !.number_of_index_entries = @ + 1,
              !.number_of_samples = @ + blk.number_of_samples]

\* "update segment metadata files"
BlockMetadataUpdate(m, c, blk, lo, hi, discontinuity_flag, uhm) ==
    LET dur == uhm.end_time - uhm.start_time
    IN  [m EXCEPT !.maximum_native_sample_value = NativeMax(m, lo, hi),
                  !.minimum_native_sample_value = NativeMin(m, lo, hi),
                  !.maximum_block_bytes = Max2(@, blk.block_bytes),
                  !.maximum_difference_bytes = Max2(@, blk.difference_bytes),
                  !.maximum_block_samples = Max2(@, blk.number_of_samples),
                  !.number_of_samples = @ + blk.number_of_samples,
                  !.number_of_blocks = @ + 1,
                  !.number_of_discontinuities =
                      IF discontinuity_flag = 1 THEN @ + 1 ELSE @,
                  !.recording_duration = IF dur < 0 THEN 0 - dur ELSE dur,
                  !.maximum_contiguous_blocks = Max2(@, c.discont_contiguous_blocks),
                  !.maximum_contiguous_samples = Max2(@, c.discont_contiguous_samples),
                  !.maximum_contiguous_block_bytes = Max2(@, c.discont_contiguous_bytes)]

\* a header update that counts the block in the data file only
BlockHeaderUpdate_DataOnly(ver, h, m, blk, block_hdr_time) ==
    LET first == h.meta.start_time = UUTC_NO_ENTRY
        st(f) == IF first THEN blk.start_time ELSE h[f].start_time
        et == block_hdr_time + BlockDuration(ver, blk.number_of_samples, m.sample_period)
    IN  [data |-> [h.data EXCEPT !.start_time = st("data"), !.end_time = et,
                                 !.number_of_entries = @ + 1,
                                 !.maximum_entry_size = Max2(@, blk.number_of_samples)],
         inds |-> [h.inds EXCEPT !.start_time = st("inds"), !.end_time = et],
         meta |-> [h.meta EXCEPT !.start_time = st("meta"), !.end_time = et]]

\* the universal headers after the block: start_time on the first pass,
\* end_time, number_of_entries, maximum_entry_size
BlockHeaderUpdate(ver, h, m, blk, block_hdr_time) ==
    LET first == h.meta.start_time = UUTC_NO_ENTRY
        st(f) == IF first THEN blk.start_time ELSE h[f].start_time
        et == block_hdr_time + BlockDuration(ver, blk.number_of_samples, m.sample_period)
    IN  [data |-> [h.data EXCEPT !.start_time = st("data"), !.end_time = et,
                                 !.number_of_entries = @ + 1,
                                 !.maximum_entry_size = Max2(@, blk.number_of_samples)],
         inds |-> [h.inds EXCEPT !.start_time = st("inds"), !.end_time = et,
                                 !.number_of_entries = @ + 1],
         meta |-> [h.meta EXCEPT !.start_time = st("meta"), !.end_time = et]]

\* process_filled_block behind the segment test: W1 is the channel in the
\* segment the block goes to, data the samples and blk the encoded block
ProcessBlockInSegment(W1, data, blk, discontinuity_flag, block_hdr_time) ==
    LET k    == Len(W1.disk)
        first == W1.uh.meta.start_time = UUTC_NO_ENTRY
        c1   == IF first
                THEN [W1.cs EXCEPT !.next_segment_start_time =
                         FirstNextSegmentStart(W1.ver, blk.start_time, W1.cs.num_secs_per_segment)]
                ELSE W1.cs
        lo   == MinOf(data)
        hi   == MaxOf(data)
        uh2  == BlockHeaderUpdate(W1.ver, W1.uh, W1.md2, blk, block_hdr_time)
        entry == IndexEntry(c1, blk, lo, hi)
        c2   == BlockChannelUpdate(c1, blk, discontinuity_flag)
        m2   == BlockMetadataUpdate(W1.md2, c2, blk, lo, hi, discontinuity_flag, uh2.meta)
        W2   == [W1 EXCEPT !.disk[k].data.blocks = Append(@, blk),
                           !.disk[k].data.cursor = @ + blk.block_bytes,
                           !.disk[k].inds.entries = Append(@, entry),
                           !.disk[k].inds.cursor = @ + TIME_SERIES_INDEX_BYTES,
                           !.uh = [uh2 EXCEPT !.data.body_CRC = CRC_update(<<blk>>, @),
                                              !.inds.body_CRC = CRC_update(<<entry>>, @)],
                           !.md2 = m2,
                           !.md3 = [@ EXCEPT
                               !.recording_time_offset = W1.globals.recording_time_offset,
                               !.GMT_offset = W1.globals.GMT_offset],
                           !.cs = [c2 EXCEPT !.raw = data]]
    IN  update_metadata(W2)

\* a process_filled_block that writes the block and tests for the new
\* segment afterwards
EncodeAndPlace_BlockBeforeRollover(W0, data, discontinuity_flag, block_hdr_time) ==
    LET blk == RED_encode(data, discontinuity_flag = 1, block_hdr_time)
        W1  == ProcessBlockInSegment(W0, data, blk, discontinuity_flag, block_hdr_time)
    IN  IF W0.cs.num_secs_per_segment > 0
        THEN check_for_new_segment(W1, blk.start_time) ELSE W1

\* process_filled_block from the offset test to the segment test: W0 is the
\* channel with the offset settled, data the samples after the bit shift
EncodeAndPlace(W0, data, discontinuity_flag, block_hdr_time) ==
    LET blk == RED_encode(data, discontinuity_flag = 1, block_hdr_time)
        W1  == IF W0.cs.num_secs_per_segment > 0
               THEN check_for_new_segment(W0, blk.start_time) ELSE W0
    IN  ProcessBlockInSegment(W1, data, blk, discontinuity_flag, block_hdr_time)

process_filled_block(W, raw, block_len, discontinuity_flag, block_hdr_time) ==
    IF Len(raw) = 0 THEN W
    ELSE IF block_len = 0 THEN W
    ELSE EncodeAndPlace(
             [W EXCEPT !.globals = GeneratedOffset(recording_time_offset_mode,
                                       W.cs.if_appending, @, block_hdr_time)],
             IF W.cs.bit_shift_flag # 0
             THEN [i \in 1..Len(raw) |-> BitShift(raw[i])] ELSE raw,
             discontinuity_flag, block_hdr_time)


(***************************************************************************)
(* write_mef_channel_data                                                  *)
(***************************************************************************)
\* block_len = ceil(secs_per_block * sampling_frequency)
BlockLen == SamplesPerBlock
\* calloc(secs_per_block * sampling_frequency * 2, sizeof(si4))
BufferCapacity == 2 * SamplesPerBlock

\* abs(packet_time - last_chan_timestamp) >= DISCONTINUITY_TIME_THRESHOLD
DiscontinuityTest(t, last) == abs(t - last) >= ThresholdTicks

\* packet_time - block_boundary >= block_interval
IntervalTest(t, boundary, block_interval) == t - boundary >= block_interval

\* a cut that forgets the else branch and keeps the flag it had
FlagAfterCut_KeepsFlag(disc, discontinuity_flag) ==
    IF disc THEN 1 ELSE discontinuity_flag

\* "mark next block as being discontinuous if discontinuity is found"
FlagAfterCut(disc, discontinuity_flag) == IF disc THEN 1 ELSE 0

\* one pass of the loop body for packet (t, samp); L holds the locals
\* raw (start..current), block_hdr_time, block_boundary,
\* last_chan_timestamp, discontinuity_flag, and the world W
\* a step that cuts the block without "set next block's timestamp"
WriteStep_KeepsHeaderTime(L, t, samp, block_len, block_interval) ==
    LET hdr0 == IF L.block_hdr_time = 0 THEN t ELSE L.block_hdr_time
        bnd0 == IF L.block_hdr_time = 0 THEN t ELSE L.block_boundary
        disc == DiscontinuityTest(t, L.last_chan_timestamp)
        cut  == disc \/ IntervalTest(t, bnd0, block_interval)
        W1   == IF cut /\ Len(L.raw) > 0
                THEN process_filled_block(L.W, L.raw, block_len, L.discontinuity_flag, hdr0)
                ELSE L.W
    IN  [W                   |-> W1,
         raw                 |-> IF cut THEN <<samp>> ELSE Append(L.raw, samp),
         block_hdr_time      |-> hdr0,
         block_boundary      |-> IF cut THEN (IF disc THEN t ELSE bnd0 + block_interval)
                                        ELSE bnd0,
         last_chan_timestamp |-> t,
         discontinuity_flag  |-> IF cut THEN FlagAfterCut(disc, L.discontinuity_flag)
                                        ELSE L.discontinuity_flag]

WriteStep(L, t, samp, block_len, block_interval) ==
    LET hdr0 == IF L.block_hdr_time = 0 THEN t ELSE L.block_hdr_time
        bnd0 == IF L.block_hdr_time = 0 THEN t ELSE L.block_boundary
        disc == DiscontinuityTest(t, L.last_chan_timestamp)
        cut  == disc \/ IntervalTest(t, bnd0, block_interval)
        W1   == IF cut /\ Len(L.raw) > 0
                THEN process_filled_block(L.W, L.raw, block_len, L.discontinuity_flag, hdr0)
                ELSE L.W
    IN  [W                   |-> W1,
         raw                 |-> IF cut THEN <<samp>> ELSE Append(L.raw, samp),
         block_hdr_time      |-> IF cut THEN t ELSE hdr0,
         block_boundary      |-> IF cut THEN (IF disc THEN t ELSE bnd0 + block_interval)
                                        ELSE bnd0,
         last_chan_timestamp |-> t,
         discontinuity_flag  |-> IF cut THEN FlagAfterCut(disc, L.discontinuity_flag)
                                        ELSE L.discontinuity_flag]

RECURSIVE WriteLoop(_, _, _, _, _)
WriteLoop(L, packet_times, samps, block_len, block_interval) ==
    IF packet_times = <<>> THEN L
    ELSE WriteLoop(WriteStep(L, Head(packet_times), Head(samps), block_len, block_interval),
                   Tail(packet_times), Tail(samps), block_len, block_interval)

\* a write that does not save block_boundary for the next call
write_mef_channel_data_DropsBoundary(W, packet_times, samps, block_len, sample_period) ==
    LET W0 == [W EXCEPT !.md2.sample_period = sample_period,
                        !.cs.block_len = block_len]
        L0 == [W                   |-> W0,
               raw                 |-> W.cs.raw,
               block_hdr_time      |-> W.cs.block_hdr_time,
               block_boundary      |-> W.cs.block_boundary,
               last_chan_timestamp |-> W.cs.last_chan_timestamp,
               discontinuity_flag  |-> W.cs.discontinuity_flag]
        L  == WriteLoop(L0, packet_times, samps, block_len, W.md2.block_interval)
    IN  [L.W EXCEPT !.cs.raw = L.raw,
                    !.cs.last_chan_timestamp = L.last_chan_timestamp,
                    !.cs.block_hdr_time = L.block_hdr_time,
                    !.cs.discontinuity_flag = L.discontinuity_flag]

write_mef_channel_data(W, packet_times, samps, block_len, sample_period) ==
    LET W0 == [W EXCEPT !.md2.sample_period = sample_period,
                        !.cs.block_len = block_len]
        L0 == [W                   |-> W0,
               raw                 |-> W.cs.raw,
               block_hdr_time      |-> W.cs.block_hdr_time,
               block_boundary      |-> W.cs.block_boundary,
               last_chan_timestamp |-> W.cs.last_chan_timestamp,
               discontinuity_flag  |-> W.cs.discontinuity_flag]
        L  == WriteLoop(L0, packet_times, samps, block_len, W.md2.block_interval)
    IN  [L.W EXCEPT !.cs.raw = L.raw,
                    !.cs.last_chan_timestamp = L.last_chan_timestamp,
                    !.cs.block_hdr_time = L.block_hdr_time,
                    !.cs.block_boundary = L.block_boundary,
                    !.cs.discontinuity_flag = L.discontinuity_flag]

(***************************************************************************)
(* flush_mef_channel and close_mef_channel                                 *)
(***************************************************************************)
\* a flush that leaves the raw pointer where it was
flush_mef_channel_KeepsBuffer(W) ==
    IF W.cs.block_len = 0 THEN W
    ELSE LET W1 == IF Len(W.cs.raw) > 0
                   THEN process_filled_block(W, W.cs.raw, W.cs.block_len,
                                             W.cs.discontinuity_flag, W.cs.block_hdr_time)
                   ELSE W
         IN  [W1 EXCEPT !.cs.last_chan_timestamp = W.cs.last_chan_timestamp,
                        !.cs.block_hdr_time = 0,
                        !.cs.block_boundary = 0,
                        !.cs.discontinuity_flag = 1]

\* a flush that raises the flag but keeps block_hdr_time and block_boundary
flush_mef_channel_KeepsOrigin(W) ==
    IF W.cs.block_len = 0 THEN W
    ELSE LET W1 == IF Len(W.cs.raw) > 0
                   THEN process_filled_block(W, W.cs.raw, W.cs.block_len,
                                             W.cs.discontinuity_flag, W.cs.block_hdr_time)
                   ELSE W
         IN  [W1 EXCEPT !.cs.raw = <<>>,
                        !.cs.last_chan_timestamp = W.cs.last_chan_timestamp,
                        !.cs.discontinuity_flag = 1]

flush_mef_channel(W) ==
    IF W.cs.block_len = 0 THEN W
    ELSE LET W1 == IF Len(W.cs.raw) > 0
                   THEN process_filled_block(W, W.cs.raw, W.cs.block_len,
                                             W.cs.discontinuity_flag, W.cs.block_hdr_time)
                   ELSE W
         IN  [W1 EXCEPT !.cs.raw = <<>>,
                        !.cs.last_chan_timestamp = W.cs.last_chan_timestamp,
                        !.cs.block_hdr_time = 0,
                        !.cs.block_boundary = 0,
                        !.cs.discontinuity_flag = 1]

\* flush_mef_channel on a CHANNEL_STATE that nothing has initialised (the
\* caller's calloc: every field zero).  The function reads
\* channel_state->metadata_fps->metadata.time_series_section_2->block_interval
\* before it tests block_len, through a null pointer: the read faults, or
\* the build drops the unused read and the test of block_len returns 0.
flush_before_initialize(W) ==
    {[W EXCEPT !.exited = TRUE], W}

\* a close that writes the metadata and closes without the final block
close_mef_channel_NoFinalBlock(W) ==
    LET W2 == update_metadata(W)
    IN  [W2 EXCEPT !.disk[Len(W2.disk)].closed = TRUE]

close_mef_channel(W) ==
    LET W1 == process_filled_block(W, W.cs.raw, W.cs.block_len,
                                   W.cs.discontinuity_flag, W.cs.block_hdr_time)
        W2 == update_metadata(W1)
    IN  [W2 EXCEPT !.disk[Len(W2.disk)].closed = TRUE]

(***************************************************************************)
(* initialize_mef_channel_data and append_mef_channel_data                 *)
(***************************************************************************)
\* the generic universal header (gen_fps) the three files are made from
GenericHeader(segment_number, session_name, level_UUID) ==
    [start_time |-> UUTC_NO_ENTRY, end_time |-> UUTC_NO_ENTRY,
     segment_number |-> segment_number,
     session_name |-> session_name,
     level_UUID |-> level_UUID]

InitialHeader(gen, entries, max_entry) ==
    write_MEF_file([header_CRC |-> CRC_START_VALUE, body_CRC |-> CRC_START_VALUE,
                    start_time |-> gen.start_time, end_time |-> gen.end_time,
                    number_of_entries |-> entries, maximum_entry_size |-> max_entry,
                    segment_number |-> gen.segment_number,
                    session_name |-> gen.session_name,
                    level_UUID |-> gen.level_UUID])

InitialHeaders(gen) ==
    [meta |-> InitialHeader(gen, 1, METADATA_FILE_BYTES),
     inds |-> InitialHeader(gen, 0, TIME_SERIES_INDEX_BYTES),
     data |-> InitialHeader(gen, 0, 0)]

InitialMetadata(start_sample, block_interval, sample_period) ==
    [recording_duration |-> METADATA_RECORDING_DURATION_NO_ENTRY,
     sample_period |-> sample_period,
     units_conversion_factor |-> 1,
     maximum_native_sample_value |-> NaN,
     minimum_native_sample_value |-> NaN,
     start_sample |-> start_sample,
     number_of_samples |-> 0,
     number_of_blocks |-> 0,
     maximum_block_bytes |-> 0,
     maximum_block_samples |-> 0,
     maximum_difference_bytes |-> 0,
     block_interval |-> block_interval,
     number_of_discontinuities |-> 0,
     maximum_contiguous_blocks |-> 0,
     maximum_contiguous_block_bytes |-> 0,
     maximum_contiguous_samples |-> 0]

InitialChannelState(bit_shift_flag, num_secs_per_segment, if_appending, pwd) ==
    [if_appending |-> if_appending,
     pwd |-> pwd,
     raw |-> <<>>,
     block_hdr_time |-> 0,
     block_boundary |-> 0,
     last_chan_timestamp |-> 0,
     number_of_index_entries |-> 0,
     number_of_samples |-> 0,
     discontinuity_flag |-> 1,
     bit_shift_flag |-> bit_shift_flag,
     block_len |-> 0,
     inds_file_offset |-> UNIVERSAL_HEADER_BYTES,
     data_file_offset |-> UNIVERSAL_HEADER_BYTES,
     discont_contiguous_blocks |-> 0,
     discont_contiguous_samples |-> 0,
     discont_contiguous_bytes |-> 0,
     num_secs_per_segment |-> num_secs_per_segment,
     next_segment_start_time |-> 0,
     start_sample |-> 0]

\* a null pointer where a password is expected
NULL == "NULL"
Passwords == {NULL, "pw"}

\* channel_state->pwd = NULL: no password data
NoPasswordData == [level_1 |-> NULL, level_2 |-> NULL]

\* process_password_data: the password data the files are written under
process_password_data(level_1_password, level_2_password) ==
    [level_1 |-> level_1_password, level_2 |-> level_2_password]

\* the name extract_path_parts takes from mef3_session_directory
mef3_session_name == "session"

(***************************************************************************)
(* update_mefd_file: the session's manifest <session>.mefd, a universal    *)
(* header and after it one entry of MEF_FULL_FILE_NAME_BYTES for each      *)
(* channel.  The file is kept as its pieces of 1024 bytes; the function is *)
(* followed system call by system call, as the file is what two callers    *)
(* share.                                                                  *)
(***************************************************************************)
MEF_FULL_FILE_NAME_BYTES == 1024
TIME_SERIES_CHANNEL_DIRECTORY_TYPE_STRING == "timd"
\* "mefd_uh.segment_number = -3; // session level"
MefdSegmentNumber == -3
\* "mefd_uh.maximum_entry_size = 1024"
MefdMaximumEntrySize == 1024

\* no manifest on disk
NoManifest == [exists |-> FALSE, chunks |-> <<>>]

\* file_name_output: "<chan_name>.timd", zero-padded
FileNameOutput(chan_name) ==
    [unit |-> "entry",
     name |-> chan_name \o "." \o TIME_SERIES_CHANNEL_DIRECTORY_TYPE_STRING]

\* memset(&mefd_uh, 0, UNIVERSAL_HEADER_BYTES)
ZeroedHeader ==
    [unit |-> "header", header_CRC |-> ZeroCRC, body_CRC |-> ZeroCRC,
     file_type_string |-> "", start_time |-> 0, end_time |-> 0,
     anonymized_name |-> "", session_name |-> "", file_UUID |-> [zero |-> TRUE],
     maximum_entry_size |-> 0, number_of_entries |-> 0, segment_number |-> 0]

\* What memory that was never written holds when it is read.  stack: the
\* bytes CRC_calculate(&mefd_uh + CRC_BYTES, ...) covers (&mefd_uh is a
\* UNIVERSAL_HEADER *, so the sum points CRC_BYTES headers, 4096 bytes,
\* behind mefd_uh); number_of_entries: the field of mefd_uh after an fread
\* that got nothing; match: what strncmp says of a file_name_input that no
\* fread has filled.
StackContents == {"frames of the caller", "frames of an earlier call"}
GarbageCounts == {0, 1}
Uninitialised == [stack : StackContents, number_of_entries : GarbageCounts, match : BOOLEAN]
FirstGarbage == [stack |-> "frames of the caller", number_of_entries |-> 0, match |-> FALSE]

\* header_CRC as update_mefd_file computes it
MefdHeaderCRC(g) == CRC_calculate(<<[unit |-> "stack", contents |-> g.stack]>>)

\* a created header whose body_CRC is left at the start value
CreatedMefdHeader_BodyCRCNotUpdated(L, g) ==
    [unit |-> "header",
     header_CRC |-> MefdHeaderCRC(g),
     body_CRC |-> CRC_START_VALUE,
     file_type_string |-> "mefd",
     start_time |-> UUTC_NO_ENTRY, end_time |-> UUTC_NO_ENTRY,
     anonymized_name |-> IF L.anonymized_subject_name # NULL
                         THEN L.anonymized_subject_name ELSE "not_entered",
     session_name |-> mef3_session_name,
     file_UUID |-> generate_UUID(MefdSegmentNumber),
     maximum_entry_size |-> MefdMaximumEntrySize,
     number_of_entries |-> 1,
     segment_number |-> MefdSegmentNumber]

\* mefd_uh when the created file is closed
CreatedMefdHeader(L, g) ==
    [unit |-> "header",
     header_CRC |-> MefdHeaderCRC(g),
     body_CRC |-> CRC_update(<<FileNameOutput(L.chan_name)>>, CRC_START_VALUE),
     file_type_string |-> "mefd",
     start_time |-> UUTC_NO_ENTRY, end_time |-> UUTC_NO_ENTRY,
     anonymized_name |-> IF L.anonymized_subject_name # NULL
                         THEN L.anonymized_subject_name ELSE "not_entered",
     session_name |-> mef3_session_name,
     file_UUID |-> generate_UUID(MefdSegmentNumber),
     maximum_entry_size |-> MefdMaximumEntrySize,
     number_of_entries |-> 1,
     segment_number |-> MefdSegmentNumber]

\* fwrite of the pieces new at piece k of the file
WriteAt(chunks, k, new) ==
    [i \in 1..(IF Len(chunks) > k + Len(new) - 1 THEN Len(chunks) ELSE k + Len(new) - 1) |->
        IF i >= k /\ i < k + Len(new) THEN new[i - k + 1] ELSE chunks[i]]

\* fread(&mefd_uh, UNIVERSAL_HEADER_BYTES, 1, mefd_fp): nothing is read from
\* an empty file; the first piece is taken for a header whatever it is (an
\* entry is a short name and zeros: its characters lie in the CRC fields)
ReadMefdHeader(file, g) ==
    IF Len(file.chunks) = 0
    THEN [ZeroedHeader EXCEPT !.number_of_entries = g.number_of_entries,
                              !.header_CRC = <<[unit |-> "uninitialised"]>>,
                              !.body_CRC = <<[unit |-> "uninitialised"]>>,
                              !.file_type_string = "uninitialised"]
    ELSE IF file.chunks[1].unit = "header"
    THEN file.chunks[1]
    ELSE [ZeroedHeader EXCEPT !.header_CRC = <<[unit |-> "name", of |-> file.chunks[1].name]>>,
                              !.body_CRC = <<[unit |-> "name", of |-> file.chunks[1].name]>>,
                              !.file_type_string = "name"]

\* a scan that compares the last entry of the file only
Listed_LastEntryOnly(file, mefd_uh, entry, g) ==
    Len(file.chunks) > 1 /\ file.chunks[Len(file.chunks)] = entry

\* the scan "for (i = 0; i < mefd_uh.number_of_entries; i++)": an fread at
\* the end of the file leaves file_name_input as it was
Listed(file, mefd_uh, entry, g) ==
    LET there == IF Len(file.chunks) = 0 THEN 0 ELSE Len(file.chunks) - 1
        read  == IF mefd_uh.number_of_entries < there
                 THEN mefd_uh.number_of_entries ELSE there
    IN  \/ \E i \in 1..read : file.chunks[i + 1] = entry
        \/ mefd_uh.number_of_entries > 0 /\ read = 0 /\ g.match

\* the threads that create the channels of a session
Threads == {1, 2}

\* a caller that is not inside update_mefd_file
IdleCaller ==
    [pc |-> "idle", chan_name |-> "", anonymized_subject_name |-> NULL,
     mefd_uh |-> ZeroedHeader, calls |-> <<>>]

\* return from update_mefd_file
MefdReturn(L) ==
    [L EXCEPT !.pc = "idle", !.mefd_uh = ZeroedHeader, !.calls = Append(@, L.chan_name)]

\* the call with these arguments, up to the first system call
MefdCall(L, chan_name, anonymized_subject_name) ==
    [L EXCEPT !.pc = "access", !.chan_name = chan_name,
              !.anonymized_subject_name = anonymized_subject_name]

\* one step of update_mefd_file for the caller with the locals L: from one
\* system call that reads or writes the file to the next.  stdio holds the
\* fwrites back until fseek or fclose, and the fopen/fread of the existing
\* file takes the header and the entries in one read.
mefd_step(file, L, g) ==
    LET entry == FileNameOutput(L.chan_name)
    IN  CASE L.pc = "access" ->
               [file |-> file,
                local |-> [L EXCEPT !.pc = IF ~file.exists THEN "fopen_wb" ELSE "fread"]]
          [] L.pc = "fopen_wb" ->
               [file |-> [exists |-> TRUE, chunks |-> <<>>],
                local |-> [L EXCEPT !.pc = "fseek"]]
          [] L.pc = "fseek" ->
               [file |-> [file EXCEPT !.chunks = WriteAt(@, 1, <<ZeroedHeader, entry>>)],
                local |-> [L EXCEPT !.pc = "fclose"]]
          [] L.pc = "fclose" ->
               [file |-> [file EXCEPT !.chunks = WriteAt(@, 1, <<CreatedMefdHeader(L, g)>>)],
                local |-> MefdReturn(L)]
          [] L.pc = "fread" ->
               LET mefd_uh == ReadMefdHeader(file, g)
               IN  IF Listed(file, mefd_uh, entry, g)
                   THEN [file |-> file, local |-> MefdReturn(L)]
                   ELSE [file |-> file,
                         local |-> [L EXCEPT !.pc = "rewrite",
                                      !.mefd_uh = [mefd_uh EXCEPT
                                          !.number_of_entries = @ + 1,
                                          !.body_CRC = CRC_update(<<entry>>, @),
                                          !.header_CRC = MefdHeaderCRC(g)]]]
          [] L.pc = "rewrite" ->
               [file |-> [file EXCEPT !.chunks = WriteAt(@, 1, <<L.mefd_uh>>)],
                local |-> [L EXCEPT !.pc = "fopen_ab"]]
          [] L.pc = "fopen_ab" ->
               [file |-> [file EXCEPT !.chunks = Append(@, entry)],
                local |-> MefdReturn(L)]

RECURSIVE MefdRun(_, _, _)
MefdRun(file, L, g) ==
    IF L.pc = "idle" THEN file
    ELSE LET r == mefd_step(file, L, g) IN MefdRun(r.file, r.local, g)

\* update_mefd_file with no other caller at work
update_mefd_file(file, chan_name, anonymized_subject_name, g) ==
    MefdRun(file, MefdCall(IdleCaller, chan_name, anonymized_subject_name), g)

\* the channel name and the anonymized subject name of the one channel
ChannelName == "sine-test"
AnonymizedName == "anon"

\* the process before the channel exists: a zeroed CHANNEL_STATE, the
\* library's globals at their defaults, nothing made on disk
NoChannel(ver) ==
    [ver |-> ver,
     cs  |-> [f \in DOMAIN InitialChannelState(0, 0, 0, NoPasswordData) |->
                  IF f = "raw" THEN <<>> ELSE IF f = "pwd" THEN NoPasswordData ELSE 0],
     md2 |-> <<>>,
     md3 |-> <<>>,
     uh  |-> <<>>,
     disk |-> <<>>,
     globals |-> [recording_time_offset |-> 0, GMT_offset |-> 0],
     dirs |-> {},
     mefd |-> NoManifest,
     uninitialised |-> FirstGarbage,
     chan_map_name |-> ChannelName,
     exited |-> FALSE]

\* exit(0) before the channel is complete
Exit(W) == [W EXCEPT !.exited = TRUE]

\* the call of update_mefd_file at the end of initialize_mef_channel_data:
\* only part_001 has it
UpdatesMefd(ver) == ver = "part_001"

\* "check for password differences": only part_001 has it
PasswordsMustDiffer(ver) == ver = "part_001"

initialize_mef_channel_data(W, bit_shift_flag, block_interval, num_secs_per_segment, mef_3_level_1_password, mef_3_level_2_password) ==
    IF /\ PasswordsMustDiffer(W.ver)
       /\ mef_3_level_1_password # NULL /\ mef_3_level_2_password # NULL
       /\ mef_3_level_1_password = mef_3_level_2_password
    THEN Exit(W)
    ELSE IF mef_3_level_2_password # NULL /\ mef_3_level_1_password = NULL
    THEN Exit([W EXCEPT !.dirs = @ \cup {<<"mefd", 0>>}])
    ELSE LET gen == GenericHeader(0, mef3_session_name, generate_UUID(0))
             pwd == IF mef_3_level_2_password # NULL
                    THEN process_password_data(mef_3_level_1_password, mef_3_level_2_password)
                    ELSE NoPasswordData
         IN  [ver |-> W.ver,
              cs  |-> InitialChannelState(bit_shift_flag, num_secs_per_segment, 0, pwd),
              md2 |-> InitialMetadata(0, block_interval, SamplePeriod),
              md3 |-> [recording_time_offset |-> W.globals.recording_time_offset,
                       GMT_offset |-> W.globals.GMT_offset],
              uh  |-> InitialHeaders(gen),
              disk |-> <<NewSegmentFiles(InitialHeaders(gen))>>,
              globals |-> W.globals,
              dirs |-> W.dirs \cup {<<"mefd", 0>>, <<"timd", 0>>, <<"segd", 0>>},
              mefd |-> IF /\ UpdatesMefd(W.ver)
                          /\ ~(mef_3_level_1_password # NULL \/ mef_3_level_2_password # NULL)
                       THEN update_mefd_file(W.mefd, W.chan_map_name, AnonymizedName,
                                             W.uninitialised)
                       ELSE W.mefd,
              uninitialised |-> W.uninitialised,
              chan_map_name |-> W.chan_map_name,
              exited |-> FALSE]

\* the samples the segment before an appended one starts at and holds
PrevSegmentStartSample == 4
PrevSegmentSamples == 6

\* read_MEF_segment: the segment new_segment_number - 1 as it lies on disk
prev_segment(new_segment_number) ==
    [universal_header |-> [session_name |-> "session_before_renaming",
                           level_UUID |-> generate_UUID(new_segment_number - 1),
                           segment_number |-> new_segment_number - 1],
     md2 |-> [start_sample |-> PrevSegmentStartSample,
              number_of_samples |-> PrevSegmentSamples,
              block_interval |-> BlockInterval,
              sample_period |-> SamplePeriod],
     md3 |-> [recording_time_offset |-> -7, GMT_offset |-> -5]]

\* an append that names the session after the directory it was given
AppendedChannel_NameFromDirectory(W, new_segment_number, bit_shift_flag, num_secs_per_segment, mef_3_level_1_password, mef_3_level_2_password) ==
    IF mef_3_level_2_password # NULL /\ mef_3_level_1_password = NULL
    THEN Exit(W)
    ELSE LET prev == prev_segment(new_segment_number)
             gen  == GenericHeader(new_segment_number, mef3_session_name,
                                   generate_UUID(new_segment_number))
             pwd  == IF mef_3_level_2_password # NULL
                     THEN process_password_data(mef_3_level_1_password, mef_3_level_2_password)
                     ELSE NoPasswordData
         IN  [ver |-> W.ver,
              cs  |-> InitialChannelState(bit_shift_flag, num_secs_per_segment, 1, pwd),
              md2 |-> InitialMetadata(prev.md2.start_sample + prev.md2.number_of_samples,
                                      prev.md2.block_interval, prev.md2.sample_period),
              md3 |-> [recording_time_offset |-> prev.md3.recording_time_offset,
                       GMT_offset |-> prev.md3.GMT_offset],
              uh  |-> InitialHeaders(gen),
              disk |-> <<NewSegmentFiles(InitialHeaders(gen))>>,
              globals |-> [recording_time_offset |-> prev.md3.recording_time_offset,
                           GMT_offset |-> prev.md3.GMT_offset],
              dirs |-> W.dirs \cup {<<"segd", new_segment_number>>},
              mefd |-> W.mefd,
              uninitialised |-> W.uninitialised,
              chan_map_name |-> W.chan_map_name,
              exited |-> FALSE]

\* append_mef_channel_data from "channel_state->if_appending = 1" on
AppendedChannel(W, new_segment_number, bit_shift_flag, num_secs_per_segment, mef_3_level_1_password, mef_3_level_2_password) ==
    IF mef_3_level_2_password # NULL /\ mef_3_level_1_password = NULL
    THEN Exit(W)
    ELSE LET prev == prev_segment(new_segment_number)
             gen  == GenericHeader(new_segment_number, prev.universal_header.session_name,
                                   generate_UUID(new_segment_number))
             pwd  == IF mef_3_level_2_password # NULL
                     THEN process_password_data(mef_3_level_1_password, mef_3_level_2_password)
                     ELSE NoPasswordData
         IN  [ver |-> W.ver,
              cs  |-> InitialChannelState(bit_shift_flag, num_secs_per_segment, 1, pwd),
              md2 |-> InitialMetadata(prev.md2.start_sample + prev.md2.number_of_samples,
                                      prev.md2.block_interval, prev.md2.sample_period),
              md3 |-> [recording_time_offset |-> prev.md3.recording_time_offset,
                       GMT_offset |-> prev.md3.GMT_offset],
              uh  |-> InitialHeaders(gen),
              disk |-> <<NewSegmentFiles(InitialHeaders(gen))>>,
              globals |-> [recording_time_offset |-> prev.md3.recording_time_offset,
                           GMT_offset |-> prev.md3.GMT_offset],
              dirs |-> W.dirs \cup {<<"segd", new_segment_number>>},
              mefd |-> W.mefd,
              uninitialised |-> W.uninitialised,
              chan_map_name |-> W.chan_map_name,
              exited |-> FALSE]

\* an append that marks the channel state before it looks at the number
append_mef_channel_data_MarksFirst(W, new_segment_number, bit_shift_flag, num_secs_per_segment, mef_3_level_1_password, mef_3_level_2_password) ==
    IF ~(new_segment_number > 0) THEN [W EXCEPT !.cs.if_appending = 1]
    ELSE AppendedChannel(W, new_segment_number, bit_shift_flag, num_secs_per_segment,
                         mef_3_level_1_password, mef_3_level_2_password)

append_mef_channel_data(W, new_segment_number, bit_shift_flag, num_secs_per_segment, mef_3_level_1_password, mef_3_level_2_password) ==
    IF ~(new_segment_number > 0) THEN W
    ELSE AppendedChannel(W, new_segment_number, bit_shift_flag, num_secs_per_segment,
                         mef_3_level_1_password, mef_3_level_2_password)

(***************************************************************************)
(* The state machine                                                       *)
(***************************************************************************)
(***************************************************************************)
(* Records (annotations): create_or_append_annotations, write_annotation,  *)
(* close_annotation, acting on one ANNOTATION_STATE and the two files      *)
(* <session>.rdat and <session>.ridx                                       *)
(***************************************************************************)
RECORD_HEADER_BYTES == 24
RECORD_INDEX_BYTES == 24
MEFREC_Seiz_1_0_BYTES == 1296
MEFREC_Curs_1_0_BYTES == 161
MEFREC_Epoc_1_0_BYTES == 176
UNIVERSAL_HEADER_MAXIMUM_ENTRY_SIZE_NO_ENTRY == -1
UNIVERSAL_HEADER_SEGMENT_NUMBER_NO_ENTRY == -1

\* a FILE_PROCESSING_STRUCT pointer that is NULL; fp is "NULL", "open" or
\* "closed" (closed by fclose and not set to NULL)
NoFps == [is_null |-> TRUE, universal_header |-> <<>>, fp |-> "NULL"]

\* the ANNOTATION_STATE as calloc leaves it
NoAnnotationState ==
    [rdat_fps |-> NoFps, ridx_fps |-> NoFps, gmt_offset |-> 0,
     rdat_file_offset |-> 0, ridx_file_offset |-> 0]

\* no records files in the session directory
NoRecordsFiles ==
    [exists |-> FALSE,
     rdat |-> [header |-> <<>>, body |-> <<>>],
     ridx |-> [header |-> <<>>, body |-> <<>>]]

NoAnnotations(ver) ==
    [ver |-> ver, state |-> NoAnnotationState, records |-> NoRecordsFiles, crashed |-> FALSE]

Crash(A) == [A EXCEPT !.crashed = TRUE]

\* ftell after fseek(fp, 0, SEEK_END): the universal header and what was
\* written behind it
FileBytes(f) == UNIVERSAL_HEADER_BYTES + SumSeq([i \in 1..Len(f.body) |-> f.body[i].unit_bytes])

\* the level UUID drawn for the records files
RecordsLevel == -1

\* the generic universal header of create_or_append_annotations
RecordsGenericHeader ==
    GenericHeader(UNIVERSAL_HEADER_SEGMENT_NUMBER_NO_ENTRY, mef3_session_name,
                  generate_UUID(RecordsLevel))

\* fclose(fp): part_001 sets fp to NULL afterwards, the 2020 copy does not
ClosedFp(ver) == IF ver = "part_001" THEN "NULL" ELSE "closed"

\* a read that makes up a new header instead of taking the one in the file
read_MEF_file_FreshHeader(f) ==
    [is_null |-> FALSE,
     universal_header |-> InitialHeader(RecordsGenericHeader, 0,
                                        UNIVERSAL_HEADER_MAXIMUM_ENTRY_SIZE_NO_ENTRY),
     fp |-> "open"]

\* read_MEF_file with io_bytes = UNIVERSAL_HEADER_BYTES: the universal
\* header of the file, the file left open
read_MEF_file(f) == [is_null |-> FALSE, universal_header |-> f.header, fp |-> "open"]

create_or_append_annotations(A, gmt_offset) ==
    IF A.records.exists
    THEN LET rdat_fps == read_MEF_file(A.records.rdat)
             ridx_fps == read_MEF_file(A.records.ridx)
         IN  [A EXCEPT !.state = [rdat_fps |-> [rdat_fps EXCEPT !.fp = ClosedFp(A.ver)],
                                  ridx_fps |-> [ridx_fps EXCEPT !.fp = ClosedFp(A.ver)],
                                  gmt_offset |-> gmt_offset,
                                  rdat_file_offset |-> FileBytes(A.records.rdat),
                                  ridx_file_offset |-> FileBytes(A.records.ridx)]]
    ELSE LET h == InitialHeader(RecordsGenericHeader, 0,
                                UNIVERSAL_HEADER_MAXIMUM_ENTRY_SIZE_NO_ENTRY)
             fps == [is_null |-> FALSE, universal_header |-> h, fp |-> ClosedFp(A.ver)]
         IN  [A EXCEPT !.state = [rdat_fps |-> fps, ridx_fps |-> fps,
                                  gmt_offset |-> gmt_offset,
                                  rdat_file_offset |-> UNIVERSAL_HEADER_BYTES,
                                  ridx_file_offset |-> UNIVERSAL_HEADER_BYTES],
                       !.records = [exists |-> TRUE,
                                    rdat |-> [header |-> h, body |-> <<>>],
                                    ridx |-> [header |-> h, body |-> <<>>]]]

\* the test at the head of write_annotation, as written: all the strcmp
\* results negated and joined by &&
KindRejected(ver, type) ==
    IF ver = "part_001"
    THEN type = "Siez" /\ type = "Note" /\ type = "Curs" /\ type = "Epoc"
    ELSE type = "Siez" /\ type = "Note"

\* the record kinds write_annotation has a branch for
KnownKinds(ver) == IF ver = "part_001" THEN {"Note", "Seiz", "Curs", "Epoc"}
                                       ELSE {"Seiz", "Note"}

\* "calculate bytes to put in header"
BodyBytes(ver, type, record) ==
    IF type \notin KnownKinds(ver) THEN 0
    ELSE IF type = "Note" THEN record.strlen + 1
    ELSE IF type = "Seiz" THEN MEFREC_Seiz_1_0_BYTES
    ELSE IF type = "Curs" THEN MEFREC_Curs_1_0_BYTES
    ELSE MEFREC_Epoc_1_0_BYTES

\* pad bytes that are 16 where none are needed
PadBytes_NoZeroCase(bytes) == 16 - (bytes % 16)

\* "calculate pad bytes for possible encryption"
PadBytes(bytes) == IF 16 - (bytes % 16) = 16 THEN 0 ELSE 16 - (bytes % 16)

\* (ui1*) new_header + CRC_BYTES, RECORD_HEADER_BYTES - CRC_BYTES
RecordHeaderAfterCRC(h) == <<[f \in DOMAIN h \ {"record_CRC"} |-> h[f]]>>

\* what goes into the body CRC of the rdat file; the 2020 copy leaves out
\* the text of a Note and the pad bytes
RdatBodyCRC(ver, crc, header, type, body, pad) ==
    IF ver = "part_001"
    THEN CRC_update(pad, CRC_update(body, CRC_update(<<header>>, crc)))
    ELSE CRC_update(IF type = "Seiz" THEN body ELSE <<>>, CRC_update(<<header>>, crc))

\* universal headers that count the new record in the rdat file only
RecordsHeaderUpdate_RdatOnly(h, is_rdat, unixTimestamp, max_entry_size, rdat_max) ==
    [h EXCEPT !.start_time = IF @ = UUTC_NO_ENTRY THEN unixTimestamp ELSE @,
              !.end_time = unixTimestamp,
              !.maximum_entry_size =
                  IF rdat_max < max_entry_size
                     \/ rdat_max = UNIVERSAL_HEADER_MAXIMUM_ENTRY_SIZE_NO_ENTRY
                  THEN max_entry_size ELSE @,
              !.number_of_entries = IF is_rdat THEN @ + 1 ELSE @]

\* "update universal_header fields" of one of the two files; the test on
\* maximum_entry_size reads the rdat header for both
RecordsHeaderUpdate(h, is_rdat, unixTimestamp, max_entry_size, rdat_max) ==
    [h EXCEPT !.start_time = IF @ = UUTC_NO_ENTRY THEN unixTimestamp ELSE @,
              !.end_time = unixTimestamp,
              !.maximum_entry_size =
                  IF rdat_max < max_entry_size
                     \/ rdat_max = UNIVERSAL_HEADER_MAXIMUM_ENTRY_SIZE_NO_ENTRY
                  THEN max_entry_size ELSE @,
              !.number_of_entries = @ + 1]

write_annotation(A, unixTimestamp, type, record) ==
    IF KindRejected(A.ver, type) THEN A
    ELSE IF A.ver = "part_001" /\ record.is_null THEN A
    ELSE IF A.state.rdat_fps.is_null THEN A
    ELSE IF A.state.ridx_fps.is_null THEN A
    \* the 2020 copy takes strlen of, or prints, the annotation it was given
    ELSE IF record.is_null /\ type \in KnownKinds(A.ver) THEN Crash(A)
    ELSE
    LET st == A.state
        known == type \in KnownKinds(A.ver)
        body_bytes == BodyBytes(A.ver, type, record)
        pad_bytes == PadBytes(body_bytes)
        body == IF known
                THEN <<[unit |-> "record_body", unit_bytes |-> body_bytes,
                        type_string |-> type, record |-> record]>>
                ELSE <<>>
        pad  == IF pad_bytes # 0 THEN <<[unit |-> "pad", unit_bytes |-> pad_bytes]>> ELSE <<>>
        header0 == [unit |-> "record_header", unit_bytes |-> RECORD_HEADER_BYTES,
                    type_string |-> type, version_major |-> 1, version_minor |-> 0,
                    encryption |-> 0, bytes |-> body_bytes + pad_bytes,
                    time |-> unixTimestamp, record_CRC |-> ZeroCRC]
        crc0 == IF known THEN CRC_update(body, CRC_calculate(RecordHeaderAfterCRC(header0)))
                         ELSE ZeroCRC
        new_header == [header0 EXCEPT !.record_CRC = CRC_update(pad, crc0)]
        new_index == [unit |-> "record_index", unit_bytes |-> RECORD_INDEX_BYTES,
                      type_string |-> type, version_major |-> 1, version_minor |-> 0,
                      encryption |-> 0, time |-> unixTimestamp,
                      file_offset |-> st.rdat_file_offset]
        max_entry_size == (IF known THEN body_bytes + RECORD_HEADER_BYTES ELSE 0) + pad_bytes
        rdat_max == st.rdat_fps.universal_header.maximum_entry_size
        rdat1 == [RecordsHeaderUpdate(st.rdat_fps.universal_header, TRUE, unixTimestamp,
                                      max_entry_size, rdat_max)
                      EXCEPT !.body_CRC = RdatBodyCRC(A.ver, @, new_header, type, body, pad)]
        ridx1 == [RecordsHeaderUpdate(st.ridx_fps.universal_header, FALSE, unixTimestamp,
                                      max_entry_size, rdat_max)
                      EXCEPT !.body_CRC = CRC_update(<<new_index>>, @)]
        rdat_uh == [rdat1 EXCEPT !.header_CRC = CRC_calculate(HeaderBytesAfterCRC(rdat1))]
        ridx_uh == [ridx1 EXCEPT !.header_CRC = CRC_calculate(HeaderBytesAfterCRC(ridx1))]
    IN  [A EXCEPT !.state.rdat_fps = [is_null |-> FALSE, universal_header |-> rdat_uh, fp |-> "open"],
                  !.state.ridx_fps = [is_null |-> FALSE, universal_header |-> ridx_uh, fp |-> "open"],
                  !.state.rdat_file_offset = @ + RECORD_HEADER_BYTES + Len(body) * body_bytes + pad_bytes,
                  !.state.ridx_file_offset = @ + RECORD_INDEX_BYTES,
                  !.records.rdat = [header |-> rdat_uh,
                                    body |-> A.records.rdat.body \o <<new_header>> \o body \o pad],
                  !.records.ridx = [header |-> ridx_uh,
                                    body |-> Append(A.records.ridx.body, new_index)]]

\* close_annotation: the outcomes.  With no files made the NULL rdat_fps is
\* dereferenced; in the 2020 copy a file pointer that was closed before is
\* closed again, which the C library leaves undefined.
close_annotation(A) ==
    IF A.state.rdat_fps.is_null \/ A.state.ridx_fps.is_null THEN {Crash(A)}
    ELSE IF "closed" \in {A.state.rdat_fps.fp, A.state.ridx_fps.fp} THEN {A, Crash(A)}
    ELSE {[A EXCEPT !.state.rdat_fps.fp = IF @ = "NULL" THEN @ ELSE ClosedFp(A.ver),
                    !.state.ridx_fps.fp = IF @ = "NULL" THEN @ ELSE ClosedFp(A.ver)]}

\* what the uninitialised memory held that update_mefd_file has read, as far
\* as the manifest shows it
GarbageSeen ==
    IF /\ Len(mefd.chunks) > 0
       /\ mefd.chunks[1].unit = "header"
       /\ mefd.chunks[1].header_CRC[1].unit = "stack"
    THEN [FirstGarbage EXCEPT !.stack = mefd.chunks[1].header_CRC[1].contents]
    ELSE FirstGarbage

\* the process before the channel exists, with the stack as it may be
NewProcesses(ver) == {[NoChannel(ver) EXCEPT !.uninitialised.stack = s] : s \in StackContents}

World ==
    [ver |-> source_version, cs |-> cs, md2 |-> md2, md3 |-> md3, uh |-> uh, disk |-> disk,
     globals |-> MEF_globals, dirs |-> dirs, mefd |-> mefd,
     uninitialised |-> GarbageSeen, chan_map_name |-> ChannelName,
     exited |-> pc = "exited"]

\* no second channel
NoPair == [made |-> FALSE]

\* no thread is in process_filled_block
NoEmitters == <<>>

ChannelBecomes(W) ==
    /\ cs' = W.cs
    /\ md2' = W.md2
    /\ md3' = W.md3
    /\ uh' = W.uh
    /\ disk' = W.disk
    /\ MEF_globals' = W.globals
    /\ dirs' = W.dirs
    /\ mefd' = W.mefd
    /\ source_version' = source_version
    /\ UNCHANGED recordVars
    /\ UNCHANGED callers

Becomes(W) == UNCHANGED pairVars /\ ChannelBecomes(W)

ChannelStarts(W) ==
    /\ source_version = W.ver
    /\ cs = W.cs
    /\ md2 = W.md2
    /\ md3 = W.md3
    /\ uh = W.uh
    /\ disk = W.disk
    /\ MEF_globals = W.globals
    /\ dirs = W.dirs
    /\ mefd = W.mefd
    /\ callers = [t \in Threads |-> IdleCaller]
    /\ pc = IF W.exited THEN "exited" ELSE "open"
    /\ ingested = <<>>
    /\ flushedAt = {}
    /\ annotation_state = NoAnnotationState
    /\ records = NoRecordsFiles
    /\ apc = "running"

Starts(W) == other = NoPair /\ alone = NoPair /\ emitters = NoEmitters /\ ChannelStarts(W)

\* the segment number append is called with
AppendedSegmentNumber == 1

Init ==
    \E ver \in Versions, bit_shift_flag \in {0, 1}, secs \in {0, SegSecs},
       mef_3_level_1_password \in Passwords, mef_3_level_2_password \in Passwords :
        \E N \in NewProcesses(ver) :
            \/ Starts(initialize_mef_channel_data(N, bit_shift_flag, BlockInterval, secs,
                           mef_3_level_1_password, mef_3_level_2_password))
            \/ Starts(append_mef_channel_data(N, AppendedSegmentNumber,
                           bit_shift_flag, secs,
                           mef_3_level_1_password, mef_3_level_2_password))

\* the timestamps the caller may deliver next: later than the last one by a
\* gap of Gaps.  In the 2020 copy with segments in use the first block's
\* start time must be at least one segment length (its
\* next_segment_start_time is that start time minus the segment length,
\* kept in an unsigned integer).
NextTimes(last) ==
    IF last = <<>>
    THEN IF source_version = "write_mef_channel_c" /\ cs.num_secs_per_segment > 0
         THEN {FirstTime} ELSE {0, FirstTime}
    ELSE {last[1] + g : g \in Gaps}

RECURSIVE PacketTimes(_, _)
PacketTimes(last, n) ==
    IF n = 0 THEN {<<>>}
    ELSE UNION {{<<t>> \o rest : rest \in PacketTimes(<<t>>, n - 1)} : t \in NextTimes(last)}

LastDelivered == IF ingested = <<>> THEN <<>> ELSE <<Last(ingested).time>>

\* write_mef_channel_data(channel_state, packet_times, samps, n, S, F)
Write ==
    /\ pc = "open"
    /\ \E n \in 0..MaxPackets :
         /\ Len(ingested) + n <= MaxSamples
         /\ \E packet_times \in PacketTimes(LastDelivered, n) :
              LET samps == [i \in 1..n |-> Sample(Len(ingested) + i)]
              IN  /\ Becomes(write_mef_channel_data(World, packet_times, samps,
                                                    BlockLen, SamplePeriod))
                  /\ ingested' = ingested \o
                        [i \in 1..n |-> [time |-> packet_times[i], samp |-> samps[i]]]
    /\ UNCHANGED <<pc, flushedAt>>

\* flush_mef_channel(channel_state)
Flush ==
    /\ pc = "open"
    /\ Cardinality(flushedAt \cup {Len(ingested)}) <= MaxFlushes
    /\ Becomes(flush_mef_channel(World))
    /\ flushedAt' = flushedAt \cup {Len(ingested)}
    /\ UNCHANGED <<pc, ingested>>

\* close_mef_channel(channel_state)
Close ==
    /\ pc = "open"
    /\ Becomes(close_mef_channel(World))
    /\ pc' = "closed"
    /\ UNCHANGED <<ingested, flushedAt>>

\* segment numbers append refuses
InvalidSegmentNumbers == {-1, 0}

\* append_mef_channel_data(channel_state, ..., new_segment_number, ...) with
\* a segment number that is not positive, on the channel as it is
AppendRejected ==
    /\ pc \in {"open", "closed"}
    /\ \E new_segment_number \in InvalidSegmentNumbers,
          mef_3_level_1_password \in Passwords, mef_3_level_2_password \in Passwords :
         Becomes(append_mef_channel_data(World, new_segment_number, cs.bit_shift_flag,
                                         cs.num_secs_per_segment,
                                         mef_3_level_1_password, mef_3_level_2_password))
    /\ UNCHANGED <<pc, ingested, flushedAt>>

Next == Write \/ Flush \/ Close \/ AppendRejected

Spec == Init /\ [][Next]_vars

(***************************************************************************)
(* The recording of the test program: contiguous samples at a constant     *)
(* rate, blocks of one second, then close; with segments of two seconds    *)
(* or without segments.  25 samples a second stand for the program's 1000. *)
(***************************************************************************)
ScenarioSamplesPerBlock == 25
\* 40000 microseconds
ScenarioPeriod == 1250
ScenarioBlockInterval == ScenarioSamplesPerBlock * ScenarioPeriod
ScenarioSegSecs == 2
ScenarioBlocks == 5
ScenarioSamples == ScenarioBlocks * ScenarioSamplesPerBlock
ScenarioFirstTime == ScenarioSegSecs * TicksPerSecond + ScenarioPeriod
\* the caller hands over one sample or five at a time
ScenarioChunks == {1, 5}

ScenarioInit ==
    \E ver \in Versions, secs \in {0, ScenarioSegSecs} :
        \E N \in NewProcesses(ver) :
            Starts(initialize_mef_channel_data(N, 0, ScenarioBlockInterval, secs, NULL, NULL))

\* the timestamp of the first sample (see NextTimes), of a later one
ScenarioNextTimes ==
    IF ingested = <<>>
    THEN IF source_version = "write_mef_channel_c" /\ cs.num_secs_per_segment > 0
         THEN {ScenarioFirstTime} ELSE {0, ScenarioFirstTime}
    ELSE {Last(ingested).time + ScenarioPeriod}

ScenarioWrite ==
    /\ pc = "open"
    /\ \E n \in ScenarioChunks, first \in ScenarioNextTimes :
         /\ Len(ingested) + n <= ScenarioSamples
         /\ LET packet_times == [i \in 1..n |-> first + (i - 1) * ScenarioPeriod]
                 samps == [i \in 1..n |-> Sample(Len(ingested) + i)]
             IN  /\ Becomes(write_mef_channel_data(World, packet_times, samps,
                                                   ScenarioSamplesPerBlock, ScenarioPeriod))
                 /\ ingested' = ingested \o
                       [i \in 1..n |-> [time |-> packet_times[i], samp |-> samps[i]]]
    /\ UNCHANGED <<pc, flushedAt>>

ScenarioClose ==
    /\ pc = "open"
    /\ Len(ingested) = ScenarioSamples
    /\ Becomes(close_mef_channel(World))
    /\ pc' = "closed"
    /\ UNCHANGED <<ingested, flushedAt>>

ScenarioNext == ScenarioWrite \/ ScenarioClose

ScenarioSpec == ScenarioInit /\ [][ScenarioNext]_vars

(***************************************************************************)
(* The records specification: a program that makes no channel and calls    *)
(* create_or_append_annotations, write_annotation and close_annotation in  *)
(* any order                                                               *)
(***************************************************************************)
MaxAnnotations == 3

\* the type strings handed to write_annotation: the four kinds and the
\* spelling "Siez" of the test at its head, a kind that does not exist
AnnotationTypes == {"Note", "Seiz", "Curs", "Epoc", "Siez"}

\* the records handed to write_annotation: NULL, a text of some length for a
\* Note, a structure for the other kinds
NullRecord == [is_null |-> TRUE]
RecordsFor(type) ==
    {NullRecord} \cup
    IF type = "Note" THEN {[is_null |-> FALSE, strlen |-> n] : n \in {0, 15, 16}}
                     ELSE {[is_null |-> FALSE, id_number |-> 1]}

\* the timestamp of the n-th record, one second after the one before
AnnotationTime(n) == FirstTime + n * TicksPerSecond

AnnotationWorld ==
    [ver |-> source_version, state |-> annotation_state, records |-> records,
     crashed |-> apc = "crashed"]

AnnotationBecomes(A) ==
    /\ annotation_state' = A.state
    /\ records' = A.records
    /\ apc' = IF A.crashed THEN "crashed" ELSE "running"
    /\ UNCHANGED source_version
    /\ UNCHANGED channelVars
    /\ UNCHANGED manifestVars
    /\ UNCHANGED pairVars

\* calloc of the ANNOTATION_STATE; no channel is made
AnnotationInit ==
    \E ver \in Versions :
        /\ source_version = ver
        /\ cs = NoChannel(ver).cs
        /\ md2 = NoChannel(ver).md2
        /\ md3 = NoChannel(ver).md3
        /\ uh = NoChannel(ver).uh
        /\ disk = NoChannel(ver).disk
        /\ MEF_globals = NoChannel(ver).globals
        /\ dirs = NoChannel(ver).dirs
        /\ pc = "none"
        /\ ingested = <<>>
        /\ flushedAt = {}
        /\ annotation_state = NoAnnotationState
        /\ records = NoRecordsFiles
        /\ apc = "running"
        /\ mefd = NoManifest
        /\ callers = [t \in Threads |-> IdleCaller]
        /\ other = NoPair
        /\ alone = NoPair
        /\ emitters = NoEmitters

\* the hours from GMT the records are made with
AnnotationGmtOffset == -6

\* create_or_append_annotations(annotation_state, dir_name, gmt_offset, ...)
CreateOrAppendAnnotations ==
    /\ apc = "running"
    /\ AnnotationBecomes(create_or_append_annotations(AnnotationWorld, AnnotationGmtOffset))

\* write_annotation(annotation_state, unixTimestamp, type, record)
WriteAnnotation ==
    /\ apc = "running"
    /\ Len(records.ridx.body) < MaxAnnotations
    /\ \E type \in AnnotationTypes :
         \E record \in RecordsFor(type) :
            AnnotationBecomes(write_annotation(AnnotationWorld,
                                               AnnotationTime(Len(records.ridx.body)),
                                               type, record))

\* close_annotation(annotation_state)
CloseAnnotation ==
    /\ apc = "running"
    /\ \E A \in close_annotation(AnnotationWorld) : AnnotationBecomes(A)

AnnotationNext == CreateOrAppendAnnotations \/ WriteAnnotation \/ CloseAnnotation

AnnotationSpec == AnnotationInit /\ [][AnnotationNext]_vars

(***************************************************************************)
(* The channels of one session created by two threads: each thread calls   *)
(* initialize_mef_channel_data without passwords, which ends in            *)
(* update_mefd_file.  Nothing guards the manifest (the mutex is a "TBD" of *)
(* the code), so the system calls of the two callers interleave.  What     *)
(* initialize_mef_channel_data makes for the channel alone (its            *)
(* directories and files, under the channel's name) is left out here.      *)
(***************************************************************************)
MaxRegistrations == 1
ChannelNames == {"sine-test", "cosine-test"}
AnonymizedNames == {NULL, "anon"}

ManifestInit ==
    /\ source_version = "part_001"
    /\ cs = NoChannel("part_001").cs
    /\ md2 = NoChannel("part_001").md2
    /\ md3 = NoChannel("part_001").md3
    /\ uh = NoChannel("part_001").uh
    /\ disk = NoChannel("part_001").disk
    /\ MEF_globals = NoChannel("part_001").globals
    /\ dirs = NoChannel("part_001").dirs
    /\ pc = "none"
    /\ ingested = <<>>
    /\ flushedAt = {}
    /\ annotation_state = NoAnnotationState
    /\ records = NoRecordsFiles
    /\ apc = "running"
    /\ mefd = NoManifest
    /\ callers = [t \in Threads |-> IdleCaller]
    /\ other = NoPair
    /\ alone = NoPair
    /\ emitters = NoEmitters

\* thread t goes on by one step of update_mefd_file
MefdBecomes(t, g) ==
    LET r == mefd_step(mefd, callers[t], g)
    IN  /\ mefd' = r.file
        /\ callers' = [callers EXCEPT ![t] = r.local]
        /\ UNCHANGED source_version
        /\ UNCHANGED channelVars
        /\ UNCHANGED recordVars
        /\ UNCHANGED pairVars

\* initialize_mef_channel_data(..., NULL, NULL) up to the call of
\* update_mefd_file
CallUpdateMefd(t) ==
    /\ callers[t].pc = "idle"
    /\ Len(callers[t].calls) < MaxRegistrations
    /\ \E chan_name \in ChannelNames, anonymized \in AnonymizedNames :
           callers' = [callers EXCEPT ![t] = MefdCall(@, chan_name, anonymized)]
    /\ UNCHANGED mefd
    /\ UNCHANGED source_version
    /\ UNCHANGED channelVars
    /\ UNCHANGED recordVars
    /\ UNCHANGED pairVars

\* access(mefd_file_name, 0)
MefdAccess(t) == callers[t].pc = "access" /\ \E g \in Uninitialised : MefdBecomes(t, g)
\* fopen(mefd_file_name, "wb"); the two fwrites stay in the buffer
MefdCreate(t) == callers[t].pc = "fopen_wb" /\ \E g \in Uninitialised : MefdBecomes(t, g)
\* fseek(mefd_fp, 0, SEEK_SET) writes the buffer: the zeroed header, the entry
MefdWriteBody(t) == callers[t].pc = "fseek" /\ \E g \in Uninitialised : MefdBecomes(t, g)
\* fclose writes the header
MefdWriteHeader(t) == callers[t].pc = "fclose" /\ \E g \in Uninitialised : MefdBecomes(t, g)
\* fopen(mefd_file_name, "rb+"), fread of the header, the scan
MefdRead(t) == callers[t].pc = "fread" /\ \E g \in Uninitialised : MefdBecomes(t, g)
\* e_fseek, e_fwrite of the header, fclose
MefdRewriteHeader(t) == callers[t].pc = "rewrite" /\ \E g \in Uninitialised : MefdBecomes(t, g)
\* fopen(mefd_file_name, "ab+"), e_fwrite of the entry, fclose
MefdAppend(t) == callers[t].pc = "fopen_ab" /\ \E g \in Uninitialised : MefdBecomes(t, g)

ManifestNext ==
    \E t \in Threads :
        \/ CallUpdateMefd(t)
        \/ MefdAccess(t)
        \/ MefdCreate(t)
        \/ MefdWriteBody(t)
        \/ MefdWriteHeader(t)
        \/ MefdRead(t)
        \/ MefdRewriteHeader(t)
        \/ MefdAppend(t)

ManifestSpec == ManifestInit /\ [][ManifestNext]_vars


(***************************************************************************)
(* The channels of one session created one after the other: each           *)
(* initialize_mef_channel_data (no passwords) runs its update_mefd_file to *)
(* the end before the next one starts.  calls of caller 1 is the list of   *)
(* the names registered so far.                                            *)
(***************************************************************************)
MaxSequentialRegistrations == 4
SessionChannelNames == ChannelNames \cup {"ecg"}

RegisterChannel ==
    /\ Len(callers[1].calls) < MaxSequentialRegistrations
    /\ \E chan_name \in SessionChannelNames, anonymized \in AnonymizedNames, g \in Uninitialised :
          /\ mefd' = update_mefd_file(mefd, chan_name, anonymized, g)
          /\ callers' = [callers EXCEPT ![1].calls = Append(@, chan_name)]
    /\ UNCHANGED source_version
    /\ UNCHANGED channelVars
    /\ UNCHANGED recordVars
    /\ UNCHANGED pairVars

SequentialNext == RegisterChannel

SequentialSpec == ManifestInit /\ [][SequentialNext]_vars

(***************************************************************************)
(* Two channels of one session, "sine-test" and "cosine-test", written     *)
(* with the recording time offset off (RTO_IGNORE).  Each channel has its  *)
(* own CHANNEL_STATE, buffers (out_data is the channel's) and files under  *)
(* its own name; the process-wide MEF_globals and the manifest are the     *)
(* same for both.  The calls of the two channels come in any order.        *)
(* alone is the first channel as the same calls leave it when no call of   *)
(* the second channel comes in between.                                    *)
(***************************************************************************)
PairSamples == 2
OtherChannelName == "cosine-test"
PairGaps == {SamplePeriod, SegTicks}
\* the second channel's samples lie a segment apart
OtherGaps == {SegTicks}
CreatedBy == {"initialize_mef_channel_data", "append_mef_channel_data"}

\* the timestamps a channel may be given next
PairNextTimes(last, gaps) ==
    IF last = <<>> THEN {FirstTime} ELSE {last[1] + g : g \in gaps}

\* a channel created in the process N
PairCreated(by, N, secs) ==
    IF by = "initialize_mef_channel_data"
    THEN initialize_mef_channel_data(N, 0, BlockInterval, secs, NULL, NULL)
    ELSE append_mef_channel_data(N, AppendedSegmentNumber, 0, secs, NULL, NULL)

\* the second channel with what it shares with the first
OtherWorld ==
    [ver |-> source_version, cs |-> other.cs, md2 |-> other.md2, md3 |-> other.md3,
     uh |-> other.uh, disk |-> other.disk, globals |-> MEF_globals, dirs |-> other.dirs,
     mefd |-> mefd, uninitialised |-> GarbageSeen, chan_map_name |-> OtherChannelName,
     exited |-> FALSE]

\* the second channel after a call that returned the world W; between
\* tells that the second channel was called when the first had been given
\* samples and was still open
OtherAfter(W, pc2, ingested2, flushedAt2, between) ==
    [made |-> TRUE, cs |-> W.cs, md2 |-> W.md2, md3 |-> W.md3, uh |-> W.uh,
     disk |-> W.disk, dirs |-> W.dirs, pc |-> pc2, ingested |-> ingested2,
     flushedAt |-> flushedAt2, between |-> between]

OtherLastDelivered ==
    IF other.ingested = <<>> THEN <<>> ELSE <<Last(other.ingested).time>>

PairInit ==
    \E ver \in Versions, secs \in {SegSecs}, by1 \in CreatedBy, by2 \in CreatedBy :
        \E N \in NewProcesses(ver) :
            LET A == PairCreated(by1, N, secs)
                B == PairCreated(by2, [N EXCEPT !.globals = A.globals, !.mefd = A.mefd,
                                                !.chan_map_name = OtherChannelName], secs)
                A2 == [A EXCEPT !.globals = B.globals, !.mefd = B.mefd]
            IN  /\ ChannelStarts(A2)
                /\ other = OtherAfter(B, "open", <<>>, {}, FALSE)
                /\ alone = [A2 EXCEPT !.uninitialised = GarbageSeen]
                /\ emitters = NoEmitters

\* a call of the first channel: the same call on the channel alone
PairBecomes(W, Wa) ==
    /\ ChannelBecomes(W)
    /\ alone' = Wa
    /\ UNCHANGED <<other, emitters>>

\* a call of the second channel
OtherBecomes(W, pc2, ingested2, flushedAt2) ==
    /\ other' = OtherAfter(W, pc2, ingested2, flushedAt2, other.between \/ (pc = "open" /\ ingested # <<>>))
    /\ MEF_globals' = W.globals
    /\ mefd' = W.mefd
    /\ UNCHANGED <<source_version, cs, md2, md3, uh, disk, dirs, pc, ingested, flushedAt>>
    /\ UNCHANGED recordVars
    /\ UNCHANGED <<callers, alone, emitters>>

PairWrite ==
    /\ pc = "open"
    /\ Len(ingested) < PairSamples
    /\ \E t \in PairNextTimes(LastDelivered, PairGaps) :
         LET samps == <<Sample(Len(ingested) + 1)>>
         IN  /\ PairBecomes(write_mef_channel_data(World, <<t>>, samps, BlockLen, SamplePeriod),
                            write_mef_channel_data(alone, <<t>>, samps, BlockLen, SamplePeriod))
             /\ ingested' = Append(ingested, [time |-> t, samp |-> samps[1]])
    /\ UNCHANGED <<pc, flushedAt>>

PairFlush ==
    /\ pc = "open"
    /\ Cardinality(flushedAt \cup {Len(ingested)}) <= MaxFlushes
    /\ PairBecomes(flush_mef_channel(World), flush_mef_channel(alone))
    /\ flushedAt' = flushedAt \cup {Len(ingested)}
    /\ UNCHANGED <<pc, ingested>>

PairClose ==
    /\ pc = "open"
    /\ PairBecomes(close_mef_channel(World), close_mef_channel(alone))
    /\ pc' = "closed"
    /\ UNCHANGED <<ingested, flushedAt>>

OtherWrite ==
    /\ other.pc = "open"
    /\ Len(other.ingested) < PairSamples
    /\ \E t \in PairNextTimes(OtherLastDelivered, OtherGaps) :
         LET samps == <<Sample(Len(other.ingested) + 1)>>
         IN  OtherBecomes(write_mef_channel_data(OtherWorld, <<t>>, samps, BlockLen, SamplePeriod),
                          "open",
                          Append(other.ingested, [time |-> t, samp |-> samps[1]]),
                          other.flushedAt)

OtherFlush ==
    /\ other.pc = "open"
    /\ Cardinality(other.flushedAt \cup {Len(other.ingested)}) <= MaxFlushes
    /\ OtherBecomes(flush_mef_channel(OtherWorld), "open", other.ingested,
                    other.flushedAt \cup {Len(other.ingested)})

OtherClose ==
    /\ other.pc = "open"
    /\ OtherBecomes(close_mef_channel(OtherWorld), "closed", other.ingested, other.flushedAt)

PairNext == PairWrite \/ PairFlush \/ PairClose \/ OtherWrite \/ OtherFlush \/ OtherClose

PairSpec == PairInit /\ [][PairNext]_vars

(***************************************************************************)
(* The offset specification: a new session with the recording time offset  *)
(* applied, in which two threads drive one channel each and are followed   *)
(* through process_filled_block step by step.  The mutex around the test   *)
(* and the generation of the offset is commented out in both copies, so    *)
(* the steps of the two threads interleave.                                *)
(***************************************************************************)
MaxOffsetBlocks == 2

RTO_APPLY == "RTO_APPLY"

\* the timestamps of the first block of a channel: a day apart
OffsetTimes == {DayTicks + FirstTime, 2 * DayTicks + FirstTime}

apply_recording_time_offset(globals, time) == time - globals.recording_time_offset

IdleEmitter ==
    [pc |-> "idle", block_hdr_time |-> UUTC_NO_ENTRY, generated |-> 0, blocks |-> <<>>,
     md3 |-> [recording_time_offset |-> MEF_GLOBALS_RECORDING_TIME_OFFSET_DEFAULT,
              GMT_offset |-> 0]]

\* the block_hdr_time of the next block of a channel
OffsetNextTimes(E) ==
    IF E.blocks = <<>> THEN OffsetTimes
    ELSE {Last(E.blocks).block_hdr_time + SamplePeriod}

OffsetInit ==
    \E ver \in Versions :
        /\ source_version = ver
        /\ cs = NoChannel(ver).cs
        /\ md2 = NoChannel(ver).md2
        /\ md3 = NoChannel(ver).md3
        /\ uh = NoChannel(ver).uh
        /\ disk = NoChannel(ver).disk
        /\ MEF_globals = NoChannel(ver).globals
        /\ dirs = NoChannel(ver).dirs
        /\ pc = "none"
        /\ ingested = <<>>
        /\ flushedAt = {}
        /\ annotation_state = NoAnnotationState
        /\ records = NoRecordsFiles
        /\ apc = "running"
        /\ mefd = NoManifest
        /\ callers = [t \in Threads |-> IdleCaller]
        /\ other = NoPair
        /\ alone = NoPair
        /\ emitters = [t \in Threads |-> IdleEmitter]

\* thread t goes on; globals is what it leaves in MEF_globals
EmitterBecomes(t, E, globals) ==
    /\ emitters' = [emitters EXCEPT ![t] = E]
    /\ MEF_globals' = globals
    /\ UNCHANGED <<source_version, cs, md2, md3, uh, disk, dirs, pc, ingested, flushedAt>>
    /\ UNCHANGED recordVars
    /\ UNCHANGED manifestVars
    /\ UNCHANGED <<other, alone>>

\* process_filled_block is entered with a block to emit
EnterProcessFilledBlock(t) ==
    /\ emitters[t].pc = "idle"
    /\ Len(emitters[t].blocks) < MaxOffsetBlocks
    /\ \E block_hdr_time \in OffsetNextTimes(emitters[t]) :
           EmitterBecomes(t, [emitters[t] EXCEPT !.pc = "test",
                                                !.block_hdr_time = block_hdr_time],
                          MEF_globals)

\* the test of if_appending, the mode and the offset
TestOffset(t) ==
    /\ emitters[t].pc = "test"
    /\ EmitterBecomes(t, [emitters[t] EXCEPT !.pc =
                              IF OffsetWanted(RTO_APPLY, 0, MEF_globals)
                              THEN "generate" ELSE "encode"],
                      MEF_globals)

\* generate_recording_time_offset
GenerateOffset(t) ==
    /\ emitters[t].pc = "generate"
    /\ EmitterBecomes(t, [emitters[t] EXCEPT !.pc = "encode", !.generated = @ + 1],
                      generate_recording_time_offset(MEF_globals, emitters[t].block_hdr_time,
                                                     gmt_offset_in_hours * 3600))

\* RED_encode offsets the start time of the block, and the block is written
EncodeBlock(t) ==
    /\ emitters[t].pc = "encode"
    /\ EmitterBecomes(t, [emitters[t] EXCEPT
                              !.pc = "metadata",
                              !.blocks = Append(@,
                                  [block_hdr_time |-> emitters[t].block_hdr_time,
                                   start_time |-> apply_recording_time_offset(
                                                      MEF_globals, emitters[t].block_hdr_time),
                                   recording_time_offset |-> MEF_globals.recording_time_offset])],
                      MEF_globals)

\* section 3 of the metadata takes the offsets of MEF_globals
StoreOffset(t) ==
    /\ emitters[t].pc = "metadata"
    /\ EmitterBecomes(t, [emitters[t] EXCEPT
                              !.pc = "idle",
                              !.md3 = [recording_time_offset |-> MEF_globals.recording_time_offset,
                                       GMT_offset |-> MEF_globals.GMT_offset]],
                      MEF_globals)

OffsetNext ==
    \E t \in Threads :
        \/ EnterProcessFilledBlock(t)
        \/ TestOffset(t)
        \/ GenerateOffset(t)
        \/ EncodeBlock(t)
        \/ StoreOffset(t)

OffsetSpec == OffsetInit /\ [][OffsetNext]_vars

(***************************************************************************)
(* The early-call specification: a program that may call flush_mef_channel *)
(* on its zeroed CHANNEL_STATE before it calls initialize_mef_channel_data *)
(* and then writes, flushes and closes the channel                         *)
(***************************************************************************)
EarlyInit ==
    \E ver \in Versions :
        /\ source_version = ver
        /\ cs = NoChannel(ver).cs
        /\ md2 = NoChannel(ver).md2
        /\ md3 = NoChannel(ver).md3
        /\ uh = NoChannel(ver).uh
        /\ disk = NoChannel(ver).disk
        /\ MEF_globals = NoChannel(ver).globals
        /\ dirs = NoChannel(ver).dirs
        /\ pc = "none"
        /\ ingested = <<>>
        /\ flushedAt = {}
        /\ annotation_state = NoAnnotationState
        /\ records = NoRecordsFiles
        /\ apc = "running"
        /\ mefd = NoManifest
        /\ callers = [t \in Threads |-> IdleCaller]
        /\ other = NoPair
        /\ alone = NoPair
        /\ emitters = NoEmitters

\* flush_mef_channel(channel_state) before initialize_mef_channel_data
FlushBeforeInitialize ==
    /\ pc = "none"
    /\ \E W \in flush_before_initialize(World) :
         /\ Becomes(W)
         /\ pc' = IF W.exited THEN "crashed" ELSE "none"
    /\ UNCHANGED <<ingested, flushedAt>>

\* initialize_mef_channel_data(channel_state, ...), without passwords
InitializeLater ==
    /\ pc = "none"
    /\ \E bit_shift_flag \in {0, 1}, secs \in {0, SegSecs} :
         LET W == initialize_mef_channel_data(World, bit_shift_flag, BlockInterval, secs,
                                              NULL, NULL)
         IN  /\ Becomes(W)
             /\ pc' = IF W.exited THEN "exited" ELSE "open"
    /\ UNCHANGED <<ingested, flushedAt>>

EarlyNext == FlushBeforeInitialize \/ InitializeLater \/ Write \/ Flush \/ Close

EarlySpec == EarlyInit /\ [][EarlyNext]_vars

(***************************************************************************)
(* The dense-input specification: a channel made by                        *)
(* initialize_mef_channel_data that is given samples one by one whose      *)
(* timestamps repeat, lie a quarter of a sample period apart, or pause     *)
(* for less than the discontinuity threshold                               *)
(***************************************************************************)
MaxDenseSamples == 5

\* a pause of three sample periods: longer than the block interval and
\* shorter than DISCONTINUITY_TIME_THRESHOLD
SlowGap == 3 * SamplePeriod
\* gaps between consecutive timestamps: none, a quarter of the sample
\* period, the sample period, and the pause
DenseGaps == {0, SamplePeriod \div 4, SamplePeriod, SlowGap}

DenseInit ==
    \E ver \in Versions :
        \E N \in NewProcesses(ver) :
            Starts(initialize_mef_channel_data(N, 0, BlockInterval, 0, NULL, NULL))

\* write_mef_channel_data with one packet.  "*raw_data_ptr_current++ =
\* *samps++" has no test against the end of the buffer: a sample stored
\* behind the last element is a write outside the allocation, after which
\* the process goes on with a corrupted heap or faults.
DenseWrite ==
    /\ pc = "open"
    /\ Len(ingested) < MaxDenseSamples
    /\ \E t \in (IF ingested = <<>> THEN {FirstTime}
                                   ELSE {Last(ingested).time + g : g \in DenseGaps}) :
         LET samps == <<Sample(Len(ingested) + 1)>>
             W == write_mef_channel_data(World, <<t>>, samps, BlockLen, SamplePeriod)
         IN  /\ Becomes(W)
             /\ ingested' = Append(ingested, [time |-> t, samp |-> samps[1]])
             /\ pc' \in (IF Len(W.cs.raw) > BufferCapacity THEN {"open", "crashed"}
                                                          ELSE {"open"})
    /\ UNCHANGED flushedAt

DenseNext == DenseWrite \/ Flush \/ Close

DenseSpec == DenseInit /\ [][DenseNext]_vars

(***************************************************************************)
(* What a reader of the files sees                                         *)
(***************************************************************************)
Segs == 1..Len(disk)
SegBlocks(k) == disk[k].data.blocks
SegEntries(k) == disk[k].inds.entries
\* the metadata of segment k: the file of a closed segment, the metadata in
\* memory of the current one
SegMetadata(k) == IF k = Len(disk) THEN md2 ELSE disk[k].meta.md2
\* all blocks and index entries in emission order across the segments
AllBlocks == Flatten([k \in Segs |-> SegBlocks(k)])
AllEntries == Flatten([k \in Segs |-> SegEntries(k)])
\* the samples of the emitted blocks, concatenated
Emitted == Flatten([j \in 1..Len(AllBlocks) |-> AllBlocks[j].samples])
\* position in the ingested sequence of the first sample of the j-th block
FirstSampleOf(j) == 1 + SumSeq([i \in 1..(j - 1) |-> AllBlocks[i].number_of_samples])
\* number of samples waiting in the raw buffer of an open channel
Buffered == Len(cs.raw)

(***************************************************************************)
(* Claims                                                                  *)
(***************************************************************************)

\* C1 -- sample conservation: while the channel is open, the number of
\* samples ingested equals the sum of number_of_samples over the metadata of
\* all segments plus the number of samples in the raw buffer, and in every
\* segment the index entries' number_of_samples add up to the segment's
\* metadata.number_of_samples.
C1_SampleConservation ==
    pc = "open" =>
        /\ Len(ingested) =
              SumSeq([k \in Segs |-> SegMetadata(k).number_of_samples]) + Buffered
        /\ \A k \in Segs :
              SumSeq([i \in 1..Len(SegEntries(k)) |-> SegEntries(k)[i].number_of_samples])
                 = SegMetadata(k).number_of_samples

\* a rollover has happened, a flush has emitted a block, blocks lie in two
\* segments and samples wait in the buffer
C1_Witness ==
    /\ pc = "open"
    /\ Len(disk) >= 2
    /\ flushedAt # {}
    /\ Buffered > 0
    /\ Len(SegEntries(1)) >= 1
    /\ Len(SegEntries(Len(disk))) >= 1

\* the bit-shift rule: a sample divided by 4, rounded half away from zero
RoundedQuarter(x) ==
    LET a == IF x < 0 THEN 0 - x ELSE x
        q == (2 * a + 4) \div 8
    IN  IF x < 0 THEN 0 - q ELSE q
\* the i-th ingested sample as the blocks must hold it
Expected(i) ==
    IF cs.bit_shift_flag # 0 THEN RoundedQuarter(ingested[i].samp) ELSE ingested[i].samp

\* C2 -- order preservation: the samples of all emitted blocks, concatenated
\* in emission order across the segments, are a prefix of the ingested
\* samples in input order, each divided by 4 and rounded half away from zero
\* when bit_shift_flag is set: nothing is reordered, duplicated or dropped.
C2_OrderPreserved ==
    /\ Len(Emitted) <= Len(ingested)
    /\ \A i \in 1..Len(Emitted) : Emitted[i] = Expected(i)
    /\ \A j \in 1..Len(AllBlocks) :
          AllBlocks[j].number_of_samples = Len(AllBlocks[j].samples)

\* blocks in two segments hold bit-shifted samples, one of them changed by
\* the shift, while later samples still wait in the buffer
C2_Witness ==
    /\ cs.bit_shift_flag = 1
    /\ Len(disk) >= 2
    /\ Len(AllBlocks) >= 2
    /\ Len(Emitted) < Len(ingested)
    /\ \E i \in 1..Len(Emitted) : Emitted[i] # ingested[i].samp

\* C3 -- close emits the buffered samples as exactly one final block when the
\* buffer is not empty and no block when it is empty; once the channel is
\* closed every ingested sample is in a written block.
C3_CloseEmitsBuffer ==
    /\ [](pc = "closed" =>
             /\ Len(Emitted) = Len(ingested)
             /\ \A i \in 1..Len(ingested) : Emitted[i] = Expected(i))
    /\ [][(pc = "open" /\ pc' = "closed") =>
             IF Buffered > 0
             THEN /\ Len(AllBlocks') = Len(AllBlocks) + 1
                  /\ SubSeq(AllBlocks', 1, Len(AllBlocks)) = AllBlocks
                  /\ Len(Last(AllBlocks').samples) = Buffered
             ELSE AllBlocks' = AllBlocks]_vars

\* the channel was closed with samples in the buffer (close leaves the buffer
\* pointers as they were) and the final block opened a new segment
C3_Witness ==
    /\ pc = "closed"
    /\ Buffered > 0
    /\ Len(disk) >= 2
    /\ Len(SegBlocks(Len(disk))) = 1

\* the four counts of the current segment of world W agree
BlockCountsAgree(W) ==
    LET k == Len(W.disk)
        n == Len(W.disk[k].inds.entries)
    IN  /\ W.md2.number_of_blocks = n
        /\ W.uh.data.number_of_entries = n
        /\ W.uh.inds.number_of_entries = n
        /\ W.disk[k].data.header.number_of_entries = n
        /\ W.disk[k].inds.header.number_of_entries = n
        /\ W.disk[k].meta.written => W.disk[k].meta.md2.number_of_blocks = n

\* C4 -- block-count consistency: after every completed operation, for the
\* current segment, metadata.number_of_blocks, the number of index entries in
\* the index file, and number_of_entries of the data and of the index
\* universal header are equal; they are also equal right after a rollover
\* performed from the state.
C4_BlockCountConsistent ==
    /\ pc \in {"open", "closed"} => BlockCountsAgree(World)
    /\ (pc = "open" /\ cs.num_secs_per_segment > 0 /\ cs.next_segment_start_time # 0)
          => BlockCountsAgree(Rollover(World, cs.next_segment_start_time))

\* after a rollover: the first segment holds two blocks, the current one
\* at least one
C4_Witness ==
    /\ pc = "open"
    /\ Len(disk) >= 2
    /\ Len(SegEntries(1)) >= 2
    /\ md2.number_of_blocks >= 1

\* C5 -- in every segment, the file_offset of the index entry of a block is
\* UNIVERSAL_HEADER_BYTES plus the sum of block_bytes of the earlier blocks
\* of that segment: the offset in the data file of the block's first byte.
C5_FileOffsets ==
    \A k \in Segs :
        /\ Len(SegEntries(k)) = Len(SegBlocks(k))
        /\ \A i \in 1..Len(SegEntries(k)) :
              /\ SegEntries(k)[i].file_offset = UNIVERSAL_HEADER_BYTES +
                     SumSeq([j \in 1..(i - 1) |-> SegBlocks(k)[j].block_bytes])
              /\ SegEntries(k)[i].block_bytes = SegBlocks(k)[i].block_bytes

\* the first segment holds a second block behind the first, and the first
\* block of the segment opened by rollover lies right behind the header
C5_Witness ==
    /\ Len(disk) >= 2
    /\ Len(SegEntries(1)) >= 2
    /\ SegEntries(1)[2].file_offset > UNIVERSAL_HEADER_BYTES
    /\ Len(SegEntries(2)) >= 1
    /\ SegEntries(2)[1].file_offset = UNIVERSAL_HEADER_BYTES

\* the index entries of segment k form a chain that starts at `first`
StartSampleChain(k, first) ==
    \A i \in 1..Len(SegEntries(k)) :
        SegEntries(k)[i].start_sample =
            IF i = 1 THEN first
            ELSE SegEntries(k)[i - 1].start_sample + SegEntries(k)[i - 1].number_of_samples

\* C6 -- in every segment, those created by rollover included, the first
\* index entry has start_sample 0 and every later entry has the start_sample
\* of its predecessor plus the predecessor's number_of_samples.
C6_StartSampleChain == \A k \in Segs : StartSampleChain(k, 0)

\* C6, what the two copies do: part_001 restarts the chain at 0 in every
\* segment; write_mef_channel.c keeps counting from the first segment the
\* channel state wrote
C6_ChainPerCopy ==
    \A k \in Segs :
        IF source_version = "part_001" THEN StartSampleChain(k, 0)
        ELSE StartSampleChain(k,
                 SumSeq([j \in 1..(k - 1) |-> SegMetadata(j).number_of_samples]))

\* write_mef_channel.c has written a first entry with a start_sample other
\* than 0 into a segment opened by rollover
C6_Witness ==
    /\ source_version = "write_mef_channel_c"
    /\ \E k \in Segs : k >= 2 /\ Len(SegEntries(k)) >= 1
                       /\ SegEntries(k)[1].start_sample # 0

\* the gap between the i-th and the (i+1)-th ingested sample
Gap(i) == ingested[i + 1].time - ingested[i].time
\* sample i+1 opens a block flagged discontinuous (or, while it waits in the
\* buffer, opens the buffer with the flag raised for the block to come)
OpensDiscontinuousBlock(i) ==
    IF i + 1 <= Len(Emitted)
    THEN \E j \in 1..Len(AllBlocks) :
             /\ FirstSampleOf(j) = i + 1
             /\ AllBlocks[j].flags = 1
             /\ AllEntries[j].flags = 1
    ELSE pc = "open" => (Len(Emitted) = i /\ cs.discontinuity_flag = 1)

\* C7 -- discontinuity detection over the whole range of timestamps: two
\* samples ingested one after the other whose timestamps differ by at least
\* DISCONTINUITY_TIME_THRESHOLD microseconds lie in different blocks and the
\* block that starts with the later one is flagged discontinuous, whatever
\* the size of the gap (2^32 microseconds included).
C7_EveryGapDetected ==
    \A i \in 1..(Len(ingested) - 1) :
        Gap(i) >= ThresholdTicks => OpensDiscontinuousBlock(i)

\* C7, what the code does: the gap is detected when its value cut to a 32-bit
\* int is at least the threshold in absolute value (every gap below 2^31 us)
C7_GapDetectedWhenIntSized ==
    \A i \in 1..(Len(ingested) - 1) :
        (Gap(i) >= ThresholdTicks /\ Gap(i) < IntModulus \div 2)
            => OpensDiscontinuousBlock(i)

\* a gap of 2^32 microseconds lies before the first sample of an emitted
\* block, and the block is not flagged
C7_Witness ==
    \E j \in 2..Len(AllBlocks) :
        /\ Gap(FirstSampleOf(j) - 1) = IntModulus
        /\ AllBlocks[j].flags = 0

\* number of blocks of segment k with the discontinuity flag set
FlaggedBlocks(k) == Cardinality({i \in 1..Len(SegBlocks(k)) : SegBlocks(k)[i].flags = 1})

\* C8 -- in every segment with at least one block, segments opened by
\* rollover included, the first block is flagged discontinuous, and
\* metadata.number_of_discontinuities is the number of flagged blocks of the
\* segment, which is at least 1.
C8_FirstBlockDiscontinuous ==
    \A k \in Segs :
        Len(SegBlocks(k)) >= 1 =>
            /\ SegBlocks(k)[1].flags = 1
            /\ SegMetadata(k).number_of_discontinuities = FlaggedBlocks(k)
            /\ FlaggedBlocks(k) >= 1

\* C8, what the code does: the count is the number of flagged blocks, and
\* the first block of the segment initialize or append opened is flagged
C8_CountMatchesFlags ==
    \A k \in Segs :
        /\ SegMetadata(k).number_of_discontinuities = FlaggedBlocks(k)
        /\ (k = 1 /\ Len(SegBlocks(k)) >= 1) => SegBlocks(k)[1].flags = 1

\* a segment opened by rollover whose first block was cut by the interval
\* condition (no gap of 2^32 us anywhere) and is not flagged, so that the
\* segment counts no discontinuity
C8_Witness ==
    /\ \A i \in 1..(Len(ingested) - 1) : Gap(i) < IntModulus
    /\ \E k \in Segs :
          /\ k >= 2
          /\ Len(SegBlocks(k)) >= 1
          /\ SegBlocks(k)[1].flags = 0
          /\ SegMetadata(k).number_of_discontinuities = 0

\* the j-th block is wholly emitted by the interval condition: it is not the
\* first block, no flush came right before its first sample, and that sample
\* lies less than the threshold after the sample before it
StartedByIntervalAlone(j) ==
    /\ j >= 2
    /\ FirstSampleOf(j) - 1 \notin flushedAt
    /\ Gap(FirstSampleOf(j) - 1) < ThresholdTicks

\* C9 -- a block that is neither the first after initialize/append nor the
\* first after a flush, and whose first sample lies less than 100000
\* microseconds after the preceding sample, is written with the
\* discontinuity flag clear (in the block header and in the index entry).
C9_IntervalBlockNotFlagged ==
    \A j \in 1..Len(AllBlocks) :
        StartedByIntervalAlone(j) =>
            /\ AllBlocks[j].flags = 0
            /\ AllEntries[j].flags = 0

\* a block started by the interval alone follows a flagged block, in a
\* channel that was flushed at some other point
C9_Witness ==
    \E j \in 2..Len(AllBlocks) :
        /\ StartedByIntervalAlone(j)
        /\ AllBlocks[j - 1].flags = 1
        /\ flushedAt # {}

\* C10 -- the start_time of the block header and of the index entry of every
\* emitted block is the timestamp of the first sample the block holds, for
\* every timestamp value and however the block was closed (interval,
\* discontinuity, flush, close).
C10_StartTimeIsFirstSample ==
    \A j \in 1..Len(AllBlocks) :
        /\ AllBlocks[j].start_time = ingested[FirstSampleOf(j)].time
        /\ AllEntries[j].start_time = ingested[FirstSampleOf(j)].time

\* C10, what the code does: the start_time is the first sample's timestamp
\* unless that timestamp is 0, the value block_hdr_time holds when unset
C10_StartTimeUnlessZero ==
    \A j \in 1..Len(AllBlocks) :
        ingested[FirstSampleOf(j)].time # 0 =>
            /\ AllBlocks[j].start_time = ingested[FirstSampleOf(j)].time
            /\ AllEntries[j].start_time = ingested[FirstSampleOf(j)].time

\* a block whose first sample has timestamp 0 carries the timestamp of its
\* second sample
C10_Witness ==
    /\ Len(AllBlocks) >= 1
    /\ ingested[1].time = 0
    /\ AllBlocks[1].number_of_samples >= 2
    /\ AllBlocks[1].start_time = ingested[2].time

(***************************************************************************)
(* C11  Chunking invariance.  However the delivered samples were split     *)
(* into write calls (empty calls included), as long as no flush came in    *)
(* between, the channel state, the metadata, the headers and the files     *)
(* (blocks, index entries, segment boundaries) are those that one write    *)
(* call with the whole sequence gives; after close they are those of that  *)
(* one call followed by close.                                             *)
(***************************************************************************)
\* the level 1 password the channel was created with: one that was given
\* without a level 2 password is not kept in the channel state, but no
\* manifest is made for it
GivenLevel1Password ==
    IF cs.if_appending = 0 /\ cs.pwd.level_2 = NULL /\ UpdatesMefd(source_version) /\ ~mefd.exists
    THEN "pw"
    ELSE cs.pwd.level_1

\* the world the channel was created in
InitialWorld ==
    IF cs.if_appending = 1
    THEN append_mef_channel_data([NoChannel(source_version) EXCEPT !.uninitialised = GarbageSeen],
                                 uh.meta.segment_number - (Len(disk) - 1),
                                 cs.bit_shift_flag, cs.num_secs_per_segment,
                                 cs.pwd.level_1, cs.pwd.level_2)
    ELSE initialize_mef_channel_data([NoChannel(source_version) EXCEPT !.uninitialised = GarbageSeen],
                                     cs.bit_shift_flag,
                                     md2.block_interval, cs.num_secs_per_segment,
                                     GivenLevel1Password, cs.pwd.level_2)

\* one write call with everything delivered so far
OneCall ==
    write_mef_channel_data(InitialWorld,
                           [i \in 1..Len(ingested) |-> ingested[i].time],
                           [i \in 1..Len(ingested) |-> ingested[i].samp],
                           cs.block_len, md2.sample_period)

C11_ChunkingInvariant ==
    (flushedAt = {} /\ cs.block_len # 0) =>
        /\ pc = "open" => World = OneCall
        /\ pc = "closed" => World = close_mef_channel(OneCall)

\* three samples have arrived in at least two calls (a call takes two at
\* most), a block is out and a second segment has been opened
C11_Witness ==
    /\ pc = "open" /\ flushedAt = {}
    /\ Len(ingested) = MaxSamples
    /\ MaxSamples > MaxPackets
    /\ Len(disk) >= 2
    /\ Len(AllBlocks) >= 2
    /\ Buffered >= 1

(***************************************************************************)
(* C12  Flush idempotence.  A flush that follows a flush with no write in  *)
(* between emits no block and leaves the channel state, the metadata, the  *)
(* headers and the files exactly as the first flush left them.             *)
(***************************************************************************)
C12_FlushIdempotent ==
    pc = "open" =>
        LET once == flush_mef_channel(World)
        IN  /\ flush_mef_channel(once) = once
            /\ Len(ingested) \in flushedAt => once = World

\* a flush has just emitted the buffered samples as a block
C12_Witness ==
    /\ pc = "open"
    /\ Len(ingested) \in flushedAt
    /\ Len(ingested) >= 1
    /\ Buffered = 0
    /\ Len(Emitted) = Len(ingested)
    /\ Last(AllBlocks).number_of_samples < BlockLen
    /\ flush_mef_channel(World) = World

(***************************************************************************)
(* C13  Flush marks the next block.  After a flush on a channel that has   *)
(* received data, the block that starts with the first sample written      *)
(* after the flush is flagged discontinuous (block header and index        *)
(* entry) and carries that sample's timestamp as its start time, however   *)
(* close that timestamp is to the last sample before the flush.            *)
(***************************************************************************)
C13_FlushStartsDiscontinuousBlock ==
    \A p \in flushedAt :
        (p >= 1 /\ Len(Emitted) > p) =>
            \E j \in 1..Len(AllBlocks) :
                /\ FirstSampleOf(j) = p + 1
                /\ AllBlocks[j].flags = 1
                /\ AllEntries[j].flags = 1
                /\ AllBlocks[j].start_time = ingested[p + 1].time
                /\ AllEntries[j].start_time = ingested[p + 1].time

\* a flush in the middle of contiguous data (the next sample one sample
\* period later) and the block after it is out
C13_Witness ==
    \E p \in flushedAt :
        /\ p >= 1 /\ Len(Emitted) > p
        /\ Gap(p) = SamplePeriod
        /\ \E j \in 2..Len(AllBlocks) : FirstSampleOf(j) = p + 1 /\ AllBlocks[j].flags = 1

(***************************************************************************)
(* C14  Segment sample continuity.  For two consecutive segments of the    *)
(* channel, start_sample + number_of_samples of the earlier segment's      *)
(* metadata is start_sample of the later segment's metadata, whether the   *)
(* later segment was opened by a rollover or by append (the earlier one    *)
(* then being the segment append read from disk).                          *)
(***************************************************************************)
C14_SegmentSampleContinuity ==
    pc \in {"open", "closed"} =>
        /\ \A k \in Segs :
              k < Len(disk) =>
                  SegMetadata(k).start_sample + SegMetadata(k).number_of_samples
                      = SegMetadata(k + 1).start_sample
        /\ cs.if_appending = 1 =>
              LET prev == prev_segment(disk[1].segment_number)
              IN  prev.md2.start_sample + prev.md2.number_of_samples
                      = SegMetadata(1).start_sample

\* an appended channel has rolled over with samples in its first segment
\* and has written samples into the second: the segment read from disk,
\* the appended one and the one opened by rollover follow one another
C14_Witness ==
    /\ source_version = "part_001"
    /\ cs.if_appending = 1
    /\ prev_segment(disk[1].segment_number).md2.start_sample > 0
    /\ Len(disk) >= 2
    /\ SegMetadata(1).number_of_samples >= 1
    /\ SegMetadata(2).number_of_samples >= 1
    /\ SegMetadata(2).start_sample
          = PrevSegmentStartSample + PrevSegmentSamples + SegMetadata(1).number_of_samples

(***************************************************************************)
(* C15  When a rollover is performed.  The block the channel would emit    *)
(* from its buffer (as flush and close do, and write at a cut) opens a new *)
(* segment exactly when num_secs_per_segment > 0 and the block's start     *)
(* time has reached or passed next_segment_start_time; with                *)
(* num_secs_per_segment = 0 the segment number never changes.              *)
(***************************************************************************)
\* the channel after emitting the buffer as a block
EmitBuffer == process_filled_block(World, cs.raw, cs.block_len, cs.discontinuity_flag,
                                   cs.block_hdr_time)
\* emitting the buffer opens a new segment
RollsOver ==
    /\ Len(EmitBuffer.disk) = Len(disk) + 1
    /\ EmitBuffer.uh.data.segment_number = uh.data.segment_number + 1
\* the segment number is the one the channel was created with
SegmentNumberUnchanged ==
    /\ Len(disk) = 1
    /\ uh.data.segment_number = InitialWorld.uh.data.segment_number
    /\ uh.inds.segment_number = uh.data.segment_number
    /\ uh.meta.segment_number = uh.data.segment_number
    /\ disk[1].segment_number = uh.data.segment_number

\* the claim as the specification words it: the start time has reached or
\* passed next_segment_start_time, whatever that variable holds
C15_RolloverIffCrossed ==
    /\ (pc = "open" /\ Buffered > 0) =>
          (RollsOver <=> (cs.num_secs_per_segment > 0
                          /\ cs.block_hdr_time >= cs.next_segment_start_time))
    /\ (pc \in {"open", "closed"} /\ cs.num_secs_per_segment = 0) => SegmentNumberUnchanged

\* the same with the test the code makes first: next_segment_start_time is 0
\* until the first block of the channel has been written, and a 0 there
\* means no rollover
C15_RolloverIffCrossedOnceSet ==
    /\ (pc = "open" /\ Buffered > 0) =>
          (RollsOver <=> (/\ cs.num_secs_per_segment > 0
                          /\ cs.next_segment_start_time # 0
                          /\ cs.block_hdr_time >= cs.next_segment_start_time))
    /\ (pc \in {"open", "closed"} /\ cs.num_secs_per_segment = 0) => SegmentNumberUnchanged

\* part_001 has written blocks into the first segment and holds a buffer
\* whose start time has passed next_segment_start_time: emitting it opens
\* the next segment
C15_Witness ==
    /\ source_version = "part_001"
    /\ pc = "open" /\ Buffered > 0
    /\ cs.num_secs_per_segment > 0
    /\ cs.next_segment_start_time # 0
    /\ cs.block_hdr_time >= cs.next_segment_start_time
    /\ Len(SegBlocks(Len(disk))) >= 1
    /\ RollsOver

(***************************************************************************)
(* C16  The rollover scenario.  Five seconds of contiguous samples in      *)
(* blocks of one second, segments of two seconds, then close: exactly two  *)
(* segments, numbered 0 and 1; segment 0 holds two blocks whose index      *)
(* entries have start_sample 0 and one block of samples; the metadata of   *)
(* segment 1 has start_sample two blocks of samples.                       *)
(***************************************************************************)
ScenarioDone ==
    /\ pc = "closed"
    /\ cs.num_secs_per_segment = ScenarioSegSecs
    /\ Len(ingested) = ScenarioSamples

C16_TwoSegments ==
    ScenarioDone =>
        /\ Len(disk) = 2
        /\ disk[1].segment_number = 0
        /\ disk[2].segment_number = 1
        /\ Len(SegEntries(1)) = 2
        /\ SegEntries(1)[1].start_sample = 0
        /\ SegEntries(1)[2].start_sample = ScenarioSamplesPerBlock
        /\ SegMetadata(2).start_sample = 2 * ScenarioSamplesPerBlock

\* what part_001 leaves when the first timestamp is not 0: three segments,
\* the blocks two, two and one; the first two as the scenario says
C16_Witness ==
    /\ ScenarioDone
    /\ source_version = "part_001"
    /\ ingested[1].time # 0
    /\ Len(disk) = 3
    /\ [k \in Segs |-> disk[k].segment_number] = <<0, 1, 2>>
    /\ [k \in Segs |-> Len(SegBlocks(k))] = <<2, 2, 1>>
    /\ SegEntries(1)[1].start_sample = 0
    /\ SegEntries(1)[2].start_sample = ScenarioSamplesPerBlock
    /\ SegMetadata(2).start_sample = 2 * ScenarioSamplesPerBlock
    /\ SegMetadata(3).start_sample = 4 * ScenarioSamplesPerBlock

(***************************************************************************)
(* C17  Uniform contiguous input.  With a constant sample period below     *)
(* the discontinuity threshold and a block interval that is a multiple of  *)
(* it (and no segments, as in the test program), every block but the last  *)
(* holds block interval / sample period samples, the k-th index entry has  *)
(* start_sample (k-1) times that number, only the first block is flagged   *)
(* discontinuous, and after close maximum_contiguous_blocks is the number  *)
(* of blocks.                                                              *)
(***************************************************************************)
C17_UniformBlocks ==
    (pc \in {"open", "closed"} /\ cs.num_secs_per_segment = 0) =>
        /\ \A j \in 1..Len(AllBlocks) :
              /\ j < Len(AllBlocks) =>
                    AllBlocks[j].number_of_samples = ScenarioBlockInterval \div ScenarioPeriod
              /\ AllEntries[j].start_sample = (j - 1) * (ScenarioBlockInterval \div ScenarioPeriod)
              /\ (AllBlocks[j].flags = 1) <=> (j = 1)
        /\ pc = "closed" => md2.maximum_contiguous_blocks = Len(AllBlocks)

\* closed after a recording whose first timestamp is not 0: the blocks are
\* as the claim says
C17_Witness ==
    /\ pc = "closed" /\ cs.num_secs_per_segment = 0
    /\ ingested[1].time # 0
    /\ Len(AllBlocks) = ScenarioBlocks
    /\ [j \in 1..Len(AllBlocks) |-> AllEntries[j].start_sample]
          = [j \in 1..ScenarioBlocks |-> (j - 1) * ScenarioSamplesPerBlock]
    /\ [j \in 1..Len(AllBlocks) |-> AllBlocks[j].flags]
          = [j \in 1..ScenarioBlocks |-> IF j = 1 THEN 1 ELSE 0]
    /\ md2.maximum_contiguous_blocks = ScenarioBlocks

(***************************************************************************)
(* C18  The universal headers of an appended segment.  After append with   *)
(* segment number N > 0 the metadata, data and index file of the new       *)
(* segment have segment_number N and the session_name of the segment       *)
(* before; the claim adds: and the level UUID of the segment before.       *)
(***************************************************************************)
\* the universal headers of the three files of the appended segment, in
\* the files and (while it is the current segment) in memory
AppendedHeaders ==
    {disk[1].meta.header, disk[1].data.header, disk[1].inds.header}
        \cup (IF Len(disk) = 1 THEN {uh.meta, uh.data, uh.inds} ELSE {})

C18_CarriesNameAndLevelUUID ==
    (pc \in {"open", "closed"} /\ cs.if_appending = 1) =>
        \A h \in AppendedHeaders :
            /\ h.segment_number = AppendedSegmentNumber
            /\ h.session_name = prev_segment(AppendedSegmentNumber).universal_header.session_name
            /\ h.level_UUID = prev_segment(AppendedSegmentNumber).universal_header.level_UUID

\* as the code has it: the level UUID is drawn anew by append, one value
\* for the three files
C18_CarriesNameWithOwnLevelUUID ==
    (pc \in {"open", "closed"} /\ cs.if_appending = 1) =>
        /\ \A h \in AppendedHeaders :
              /\ h.segment_number = AppendedSegmentNumber
              /\ h.session_name
                    = prev_segment(AppendedSegmentNumber).universal_header.session_name
              /\ h.level_UUID = generate_UUID(AppendedSegmentNumber)
              /\ h.level_UUID # prev_segment(AppendedSegmentNumber).universal_header.level_UUID
        /\ \A g, h \in AppendedHeaders : g.level_UUID = h.level_UUID

\* an appended channel has written a block and its three files
C18_Witness ==
    /\ pc = "open" /\ cs.if_appending = 1
    /\ AppendedSegmentNumber > 0
    /\ disk[1].meta.written
    /\ Len(SegBlocks(1)) >= 1
    /\ disk[1].data.header.session_name # mef3_session_name
    /\ disk[1].data.header.segment_number = AppendedSegmentNumber

(***************************************************************************)
(* C19  append with a segment number that is not positive.  The call       *)
(* returns without any effect: the channel state, the metadata and the     *)
(* headers in memory, the files and directories, and the globals           *)
(* recording_time_offset and GMT_offset are what they were.                *)
(***************************************************************************)
C19_InvalidSegmentNumberNoEffect ==
    pc \in {"open", "closed"} =>
        \A new_segment_number \in InvalidSegmentNumbers, bit_shift_flag \in {0, 1},
           num_secs_per_segment \in {0, SegSecs},
           mef_3_level_1_password \in Passwords, mef_3_level_2_password \in Passwords :
            append_mef_channel_data(World, new_segment_number, bit_shift_flag,
                                    num_secs_per_segment,
                                    mef_3_level_1_password, mef_3_level_2_password) = World

\* a channel made by initialize holds a block and a buffer; append with 0
\* leaves it alone where append with 1 would have replaced the channel
\* state, made a directory and set the globals
C19_Witness ==
    /\ pc = "open" /\ cs.if_appending = 0
    /\ Len(AllBlocks) >= 1 /\ Buffered >= 1
    /\ append_mef_channel_data(World, 0, 0, 0, NULL, NULL) = World
    /\ LET W == append_mef_channel_data(World, 1, 0, 0, NULL, NULL)
       IN  /\ W.cs # cs
           /\ W.dirs # dirs
           /\ W.globals # MEF_globals

(***************************************************************************)
(* C20  password policy at initialize.  A level-2 password without a       *)
(* level-1 password, or two equal passwords, make initialize end the       *)
(* process, and no metadata, data or index file of the channel exists: no  *)
(* channel made by initialize holds such a pair, and a process that has    *)
(* ended left no file.                                                     *)
(***************************************************************************)
PolicyViolated(level_1_password, level_2_password) ==
    \/ level_2_password # NULL /\ level_1_password = NULL
    \/ /\ level_1_password # NULL /\ level_2_password # NULL
       /\ level_1_password = level_2_password

C20_PasswordPolicyEnforced ==
    /\ (pc \in {"open", "closed"} /\ cs.if_appending = 0) =>
            ~PolicyViolated(cs.pwd.level_1, cs.pwd.level_2)
    /\ pc = "exited" => disk = <<>>

\* level 2 without level 1: the process ends after the session directory
\* was made, with no channel or segment directory and no file
C20_Witness ==
    /\ pc = "exited"
    /\ dirs = {<<"mefd", 0>>}
    /\ disk = <<>>

(***************************************************************************)
(* C21  CRCs on disk after close.  For the data file and the index file of *)
(* every segment, those ended by a rollover included, the header_CRC on    *)
(* disk is the CRC of the universal header on disk behind the CRC field,   *)
(* and the body_CRC on disk is the CRC, from the start value, of all that  *)
(* is on disk behind the universal header.                                 *)
(***************************************************************************)
CRCsMatch(header, body) ==
    /\ header.header_CRC = CRC_calculate(HeaderBytesAfterCRC(header))
    /\ header.body_CRC = CRC_calculate(body)

C21_CRCsMatchDisk ==
    pc = "closed" =>
        \A k \in Segs :
            /\ CRCsMatch(disk[k].data.header, SegBlocks(k))
            /\ CRCsMatch(disk[k].inds.header, SegEntries(k))

\* closed with two segments that hold blocks: the first was ended by a
\* rollover, and its body CRC is not that of the second
C21_Witness ==
    /\ pc = "closed"
    /\ Len(disk) = 2
    /\ Len(SegBlocks(1)) >= 1 /\ Len(SegBlocks(2)) >= 1
    /\ disk[1].data.header.body_CRC # disk[2].data.header.body_CRC
    /\ disk[2].data.header.body_CRC # CRC_START_VALUE

(***************************************************************************)
(* C22  a record kind that is none of Note, Seiz, Curs, Epoc is ignored by *)
(* write_annotation: nothing is written to the record data file or to the  *)
(* record index file, number_of_entries of both is as before, and so are   *)
(* rdat_file_offset and ridx_file_offset.                                  *)
(***************************************************************************)
RecordKinds == {"Note", "Seiz", "Curs", "Epoc"}

\* the records side after the next write_annotation with this type and record
AfterAnnotation(type, record) ==
    write_annotation(AnnotationWorld, AnnotationTime(Len(records.ridx.body)), type, record)

C22_UnknownKindIgnored ==
    apc = "running" =>
        \A type \in AnnotationTypes \ RecordKinds :
            \A record \in RecordsFor(type) :
                LET A == AfterAnnotation(type, record)
                IN  /\ A.records = records
                    /\ A.state.rdat_file_offset = annotation_state.rdat_file_offset
                    /\ A.state.ridx_file_offset = annotation_state.ridx_file_offset

\* a record of kind "Siez" is in the files: a header without a body in the
\* record data file, an index entry, and both headers count it
C22_Witness ==
    /\ records.exists
    /\ Len(records.ridx.body) = 1
    /\ records.ridx.body[1].type_string = "Siez"
    /\ records.rdat.body = <<records.rdat.body[1]>>
    /\ records.rdat.body[1].type_string = "Siez"
    /\ records.rdat.body[1].bytes = 0
    /\ records.rdat.header.number_of_entries = 1
    /\ records.ridx.header.number_of_entries = 1
    /\ annotation_state.rdat_file_offset = UNIVERSAL_HEADER_BYTES + RECORD_HEADER_BYTES
    /\ annotation_state.ridx_file_offset = UNIVERSAL_HEADER_BYTES + RECORD_INDEX_BYTES

(***************************************************************************)
(* C23  record sizes and offsets.  The bytes field of every record header  *)
(* is the length of the record's body rounded up to the next multiple of   *)
(* 16; the file_offset of the k-th index entry is the record data offset   *)
(* at creation plus, for every earlier record, the size of a record header *)
(* and the padded body; rdat_file_offset after a write is that sum with    *)
(* the new record in it (and the size of the file).                        *)
(***************************************************************************)
\* positions in the record data file of the record headers, in file order
RECURSIVE HeaderPositions(_)
HeaderPositions(n) ==
    IF n = 0 THEN <<>>
    ELSE IF records.rdat.body[n].unit = "record_header"
         THEN Append(HeaderPositions(n - 1), n) ELSE HeaderPositions(n - 1)

RecordHeaderAt(k) == records.rdat.body[HeaderPositions(Len(records.rdat.body))[k]]

\* length of the body written behind the k-th record header
BodyLength(k) ==
    LET i == HeaderPositions(Len(records.rdat.body))[k]
    IN  IF i < Len(records.rdat.body) /\ records.rdat.body[i + 1].unit = "record_body"
        THEN records.rdat.body[i + 1].unit_bytes ELSE 0

RoundedUp16(n) == ((n + 15) \div 16) * 16

\* where the record behind the first k records starts
RecordOffset(k) ==
    UNIVERSAL_HEADER_BYTES
        + SumSeq([j \in 1..k |-> RECORD_HEADER_BYTES + RoundedUp16(BodyLength(j))])

C23_RecordSizesAndOffsets ==
    records.exists =>
        LET n == Len(HeaderPositions(Len(records.rdat.body)))
        IN  /\ n = Len(records.ridx.body)
            /\ \A k \in 1..n :
                   /\ RecordHeaderAt(k).bytes = RoundedUp16(BodyLength(k))
                   /\ records.ridx.body[k].file_offset = RecordOffset(k - 1)
            /\ ~annotation_state.rdat_fps.is_null =>
                   /\ annotation_state.rdat_file_offset = RecordOffset(n)
                   /\ annotation_state.rdat_file_offset = FileBytes(records.rdat)

\* three records: a Note of 17 bytes padded to 32, a Curs of 161 bytes
\* padded to 176, and a third that starts behind both
C23_Witness ==
    /\ records.exists
    /\ Len(records.ridx.body) = 3
    /\ RecordHeaderAt(1).type_string = "Note" /\ BodyLength(1) = 17
    /\ RecordHeaderAt(1).bytes = 32
    /\ RecordHeaderAt(2).type_string = "Curs" /\ BodyLength(2) = MEFREC_Curs_1_0_BYTES
    /\ RecordHeaderAt(2).bytes = 176
    /\ records.ridx.body[3].file_offset = UNIVERSAL_HEADER_BYTES + (24 + 32) + (24 + 176)
    /\ RecordHeaderAt(3).type_string = "Seiz"
    /\ annotation_state.rdat_file_offset = records.ridx.body[3].file_offset + 24 + 1296

(***************************************************************************)
(* C24  the two record files in step.  After any sequence of               *)
(* write_annotation calls the record data file holds as many records as    *)
(* the record index file holds entries, number_of_entries of both          *)
(* universal headers is that number, and ridx_file_offset is the index     *)
(* offset at creation plus RECORD_INDEX_BYTES for every record written.    *)
(***************************************************************************)
RecordsInData == Len(HeaderPositions(Len(records.rdat.body)))

C24_RecordFilesInStep ==
    records.exists =>
        /\ RecordsInData = Len(records.ridx.body)
        /\ records.rdat.header.number_of_entries = RecordsInData
        /\ records.ridx.header.number_of_entries = RecordsInData
        /\ \A k \in 1..RecordsInData :
               /\ records.ridx.body[k].type_string = RecordHeaderAt(k).type_string
               /\ records.ridx.body[k].time = RecordHeaderAt(k).time
        /\ ~annotation_state.ridx_fps.is_null =>
               /\ annotation_state.rdat_fps.universal_header.number_of_entries = RecordsInData
               /\ annotation_state.ridx_fps.universal_header.number_of_entries = RecordsInData
               /\ annotation_state.ridx_file_offset =
                      UNIVERSAL_HEADER_BYTES + RecordsInData * RECORD_INDEX_BYTES

\* two records of different kinds written, one with pad bytes: the record
\* data file holds five pieces, the index file two entries
C24_Witness ==
    /\ records.exists
    /\ Len(records.ridx.body) = 2
    /\ Len(records.rdat.body) = 5
    /\ records.ridx.header.number_of_entries = 2
    /\ annotation_state.ridx_file_offset = UNIVERSAL_HEADER_BYTES + 2 * RECORD_INDEX_BYTES
    /\ annotation_state.rdat_fps.fp = "open"

(***************************************************************************)
(* C25  body CRC of the record data file.  After every write_annotation,   *)
(* of any kind, the body_CRC of the record data file's universal header is *)
(* the CRC, from the start value, of the bytes appended to the body so     *)
(* far: of every record its header, its body and its pad bytes, in order.  *)
(***************************************************************************)
C25_RdatBodyCRC ==
    records.exists =>
        /\ records.rdat.header.body_CRC = CRC_calculate(records.rdat.body)
        /\ ~annotation_state.rdat_fps.is_null =>
               annotation_state.rdat_fps.universal_header.body_CRC
                   = CRC_calculate(records.rdat.body)

\* the same, for the copy that covers body and pad bytes
C25_RdatBodyCRC_part_001 == source_version = "part_001" => C25_RdatBodyCRC

\* part_001 has written a Note with pad bytes and its body CRC covers the
\* three pieces
C25_Witness ==
    /\ source_version = "part_001"
    /\ records.exists
    /\ Len(records.rdat.body) = 3
    /\ records.rdat.body[2].type_string = "Note"
    /\ records.rdat.body[3].unit = "pad"
    /\ records.rdat.header.body_CRC = records.rdat.body

(***************************************************************************)
(* C26  append mode of the records.  create_or_append_annotations on a     *)
(* session whose record data file exists leaves the records and the index  *)
(* entries in the files as they are; the next record is written at the     *)
(* end the file had, and the counts of entries go on from the values in    *)
(* the universal headers of the files.                                     *)
(***************************************************************************)
IsPrefix(a, b) == Len(a) <= Len(b) /\ SubSeq(b, 1, Len(a)) = a

\* the records side after create_or_append_annotations in this state
Reopened == create_or_append_annotations(AnnotationWorld, AnnotationGmtOffset)

\* ... and after one more record written through the new annotation state
ReopenedAndWritten(type, record) ==
    write_annotation(Reopened, AnnotationTime(Len(records.ridx.body)), type, record)

C26_AppendMode ==
    (apc = "running" /\ records.exists) =>
        /\ Reopened.records = records
        /\ Reopened.state.rdat_file_offset = FileBytes(records.rdat)
        /\ Reopened.state.ridx_file_offset = FileBytes(records.ridx)
        /\ \A type \in RecordKinds :
               \A record \in RecordsFor(type) \ {NullRecord} :
                   LET A == ReopenedAndWritten(type, record)
                       n == Len(records.ridx.body)
                   IN  /\ IsPrefix(records.rdat.body, A.records.rdat.body)
                       /\ IsPrefix(records.ridx.body, A.records.ridx.body)
                       /\ Len(A.records.ridx.body) = n + 1
                       /\ A.records.ridx.body[n + 1].file_offset = FileBytes(records.rdat)
                       /\ A.records.rdat.header.number_of_entries
                              = records.rdat.header.number_of_entries + 1
                       /\ A.records.ridx.header.number_of_entries
                              = records.ridx.header.number_of_entries + 1

\* two records are in the files and the files are closed, as after
\* close_annotation; the annotation state is the one a new
\* create_or_append_annotations gives, and a record written through it is
\* the third
C26_Witness ==
    /\ apc = "running"
    /\ records.exists
    /\ Len(records.ridx.body) = 2
    /\ annotation_state.rdat_fps.fp = ClosedFp(source_version)
    /\ annotation_state = Reopened.state
    /\ ReopenedAndWritten("Seiz", [is_null |-> FALSE, id_number |-> 1])
           .records.rdat.header.number_of_entries = 3

(***************************************************************************)
(* C27  manifest idempotence.  update_mefd_file for a channel name that    *)
(* the manifest lists (an entry among the number_of_entries entries its    *)
(* header counts) leaves the file as it is, piece for piece: no entry is   *)
(* appended and the header, with number_of_entries, body_CRC and           *)
(* header_CRC, is not written again.                                       *)
(***************************************************************************)
ManifestLists(chan_name) ==
    /\ Len(mefd.chunks) > 0
    /\ mefd.chunks[1].unit = "header"
    /\ \E i \in 1..mefd.chunks[1].number_of_entries :
           i + 1 <= Len(mefd.chunks) /\ mefd.chunks[i + 1] = FileNameOutput(chan_name)

C27_ManifestIdempotent ==
    \A chan_name \in ChannelNames, anonymized \in AnonymizedNames, g \in Uninitialised :
        ManifestLists(chan_name) =>
            update_mefd_file(mefd, chan_name, anonymized, g) = mefd

\* both threads have registered the same channel and are back; the manifest
\* holds the one entry and one more registration leaves it alone
C27_Witness ==
    /\ \A t \in Threads : callers[t].pc = "idle" /\ callers[t].calls = <<"sine-test">>
    /\ Len(mefd.chunks) = 2
    /\ mefd.chunks[1].unit = "header"
    /\ mefd.chunks[1].number_of_entries = 1
    /\ ManifestLists("sine-test")
    /\ update_mefd_file(mefd, "sine-test", NULL, FirstGarbage) = mefd

(***************************************************************************)
(* C30  the manifest under concurrent channel creation.  When two threads  *)
(* have each created one channel of a new session (no passwords), the two  *)
(* names being different, the manifest holds an entry for each of the two  *)
(* channels exactly once and its number_of_entries is 2, however the two   *)
(* calls were interleaved.                                                 *)
(***************************************************************************)
BothCreated ==
    /\ \A t \in Threads : callers[t].pc = "idle" /\ Len(callers[t].calls) = 1
    /\ callers[1].calls[1] # callers[2].calls[1]

C30_ManifestHoldsBoth ==
    BothCreated =>
        /\ Len(mefd.chunks) = 3
        /\ mefd.chunks[1].unit = "header"
        /\ mefd.chunks[1].number_of_entries = 2
        /\ {mefd.chunks[2], mefd.chunks[3]}
              = {FileNameOutput(callers[t].calls[1]) : t \in Threads}

\* the two channels have been created and the manifest is as it should be
C30_Witness ==
    /\ BothCreated
    /\ Len(mefd.chunks) = 3
    /\ mefd.chunks[1].unit = "header"
    /\ mefd.chunks[1].number_of_entries = 2
    /\ mefd.chunks[2] = FileNameOutput("sine-test")
    /\ mefd.chunks[3] = FileNameOutput("cosine-test")

(***************************************************************************)
(* C28  channel independence.  With the recording time offset off, two     *)
(* channels with different names: however the write, flush and close       *)
(* calls of the second channel fall between those of the first, the first  *)
(* channel's state, metadata, headers and files (and the globals it reads) *)
(* are those the same calls give when the first channel runs alone.        *)
(***************************************************************************)
C28_ChannelIndependent == other.made => World = alone

\* both channels are closed and have blocks on disk; the second one was
\* called between the calls of the first
C28_Witness ==
    /\ other.made
    /\ pc = "closed" /\ other.pc = "closed"
    /\ Len(ingested) = PairSamples /\ Len(other.ingested) = PairSamples
    /\ other.between
    /\ Len(AllBlocks) >= 2
    /\ Len(other.disk[1].data.blocks) >= 1
    /\ World = alone

(***************************************************************************)
(* C29  one-shot recording time offset.  With the recording time offset    *)
(* applied, two channels of a new session that emit their first blocks     *)
(* at the same time: generate_recording_time_offset is called once in the  *)
(* session, and every block of both channels carries the same offset.      *)
(***************************************************************************)
OffsetGenerations == SumSeq([t \in 1..Cardinality(Threads) |-> emitters[t].generated])

OffsetsWritten ==
    UNION {{emitters[t].blocks[i].recording_time_offset : i \in 1..Len(emitters[t].blocks)} :
              t \in Threads}

C29_OneShotOffset ==
    emitters # NoEmitters =>
        /\ OffsetGenerations <= 1
        /\ (OffsetsWritten # {} => OffsetGenerations = 1)
        /\ Cardinality(OffsetsWritten) <= 1

\* both channels have emitted their first block, each after a generation of
\* its own, and the two blocks carry different offsets
C29_Witness ==
    /\ emitters # NoEmitters
    /\ \A t \in Threads : emitters[t].pc = "idle" /\ Len(emitters[t].blocks) >= 1
                           /\ emitters[t].generated = 1
    /\ emitters[1].blocks[1].recording_time_offset # emitters[2].blocks[1].recording_time_offset

(***************************************************************************)
(* C31  no-op calls.  A write of zero packets, a flush of a channel that   *)
(* has not been given any sample, and a flush of a channel state that was  *)
(* never initialised emit no block, leave the channel state and the        *)
(* metadata in memory as they were and signal no error.                    *)
(***************************************************************************)
SameChannelState(W) == W.cs = cs /\ W.md2 = md2 /\ W.disk = disk /\ ~W.exited

WriteOfNothing == write_mef_channel_data(World, <<>>, <<>>, BlockLen, SamplePeriod)

C31_NoOpCalls ==
    /\ pc = "none" => \A W \in flush_before_initialize(World) : SameChannelState(W)
    /\ pc = "open" => SameChannelState(WriteOfNothing)
    /\ pc = "open" /\ ingested = <<>> => SameChannelState(flush_mef_channel(World))

\* the part of C31 that the code keeps: on an initialised channel without
\* samples a flush changes nothing, and a write of zero packets changes
\* nothing but block_len
C31_Witness ==
    /\ pc = "open" /\ ingested = <<>> /\ cs.block_len = 0
    /\ SameChannelState(flush_mef_channel(World))
    /\ WriteOfNothing.cs = [cs EXCEPT !.block_len = BlockLen]
    /\ WriteOfNothing.md2 = md2 /\ WriteOfNothing.disk = disk

(***************************************************************************)
(* C32  end-time extrapolation.  After each emitted block of N samples     *)
(* that starts at T, the end_time of the metadata, the data and the index  *)
(* universal header is T plus N sample periods (not N + 1), and            *)
(* recording_duration is |end_time - start_time|.                          *)
(***************************************************************************)
LastBlockWritten == Last(SegBlocks(Len(disk)))

\* |a - b| in 64 bits
Distance(a, b) == IF a - b < 0 THEN b - a ELSE a - b

C32_EndTimeAfterNSamples ==
    (pc \in {"open", "closed"} /\ Len(SegBlocks(Len(disk))) > 0) =>
        LET et == LastBlockWritten.start_time
                      + LastBlockWritten.number_of_samples * md2.sample_period
        IN  /\ uh.meta.end_time = et
            /\ uh.data.end_time = et
            /\ uh.inds.end_time = et
            /\ md2.recording_duration = Distance(uh.meta.end_time, uh.meta.start_time)

\* a block of two samples has been emitted and the headers end N sample
\* periods after its start (part_001)
C32_Witness ==
    /\ pc = "open" /\ Len(SegBlocks(Len(disk))) > 0
    /\ LastBlockWritten.number_of_samples = 2
    /\ uh.meta.end_time = LastBlockWritten.start_time + 2 * md2.sample_period
    /\ uh.data.end_time = uh.meta.end_time /\ uh.inds.end_time = uh.meta.end_time
    /\ md2.recording_duration > 0

(***************************************************************************)
(* C33  phase lock.  For an input whose gaps all stay below the            *)
(* discontinuity threshold and two adjacent blocks of which the second is  *)
(* not flagged discontinuous, the second block starts one block interval   *)
(* after the first, give or take the largest gap between consecutive       *)
(* input timestamps.                                                       *)
(***************************************************************************)
InputGaps == {ingested[i + 1].time - ingested[i].time : i \in 1..(Len(ingested) - 1)}

LargestInputGap == CHOOSE g \in InputGaps : \A h \in InputGaps : h <= g

GapsBelowThreshold == \A g \in InputGaps : g < ThresholdTicks

C33_PhaseLock ==
    (pc \in {"open", "closed"} /\ GapsBelowThreshold) =>
        \A j \in 1..(Len(AllBlocks) - 1) :
            AllBlocks[j + 1].flags = 0 =>
                Distance(AllBlocks[j + 1].start_time,
                         AllBlocks[j].start_time + md2.block_interval) <= LargestInputGap

\* two adjacent blocks, the second not flagged and started one sample
\* period later than a block interval after the first
C33_Witness ==
    /\ pc \in {"open", "closed"} /\ GapsBelowThreshold
    /\ \E j \in 1..(Len(AllBlocks) - 1) :
          /\ AllBlocks[j + 1].flags = 0
          /\ AllBlocks[j + 1].start_time
                 = AllBlocks[j].start_time + md2.block_interval + SamplePeriod

(***************************************************************************)
(* C34  rollover ordering.  A segment that a rollover has ended is closed, *)
(* and its metadata file and the universal headers of its data and index   *)
(* file account on disk for all the blocks it holds; the block that        *)
(* triggered the rollover is the first block of the next segment, at data  *)
(* offset UNIVERSAL_HEADER_BYTES, and starts later than every block of the *)
(* ended segment.                                                          *)
(***************************************************************************)
SamplesIn(k) == SumSeq([j \in 1..Len(SegBlocks(k)) |-> SegBlocks(k)[j].number_of_samples])

FinalisedOnDisk(k) ==
    /\ disk[k].closed
    /\ disk[k].meta.written
    /\ disk[k].meta.md2.number_of_blocks = Len(SegBlocks(k))
    /\ disk[k].meta.md2.number_of_samples = SamplesIn(k)
    /\ disk[k].data.header.number_of_entries = Len(SegBlocks(k))
    /\ disk[k].inds.header.number_of_entries = Len(SegEntries(k))
    /\ Len(SegEntries(k)) = Len(SegBlocks(k))
    /\ CRCsMatch(disk[k].data.header, SegBlocks(k))
    /\ CRCsMatch(disk[k].inds.header, SegEntries(k))

C34_RolloverOrdering ==
    pc \in {"open", "closed"} =>
        \A k \in 1..(Len(disk) - 1) :
            /\ FinalisedOnDisk(k)
            /\ Len(SegBlocks(k + 1)) >= 1
            /\ SegEntries(k + 1)[1].file_offset = UNIVERSAL_HEADER_BYTES
            /\ \A j \in 1..Len(SegBlocks(k)) :
                  SegBlocks(k)[j].start_time < SegBlocks(k + 1)[1].start_time

\* a rollover has ended a segment of two blocks while the channel is open
C34_Witness ==
    /\ pc = "open"
    /\ Len(disk) = 2
    /\ Len(SegBlocks(1)) = 2
    /\ FinalisedOnDisk(1)
    /\ Len(SegBlocks(2)) = 1
    /\ SegEntries(2)[1].file_offset = UNIVERSAL_HEADER_BYTES

(***************************************************************************)
(* C35  header freshness at quiescent points.  On return from every write, *)
(* flush or close call the universal headers last written to the data and  *)
(* the index file of the current segment carry the number_of_entries,      *)
(* maximum_entry_size, end_time and body_CRC that account for every block  *)
(* written to the segment, and both files are positioned at their append   *)
(* offsets, data_file_offset and inds_file_offset.                         *)
(***************************************************************************)
BlockBytesIn(k) == SumSeq([j \in 1..Len(SegBlocks(k)) |-> SegBlocks(k)[j].block_bytes])

LargestBlockIn(k) ==
    IF SegBlocks(k) = <<>> THEN 0
    ELSE CHOOSE n \in {SegBlocks(k)[j].number_of_samples : j \in 1..Len(SegBlocks(k))} :
             \A j \in 1..Len(SegBlocks(k)) : SegBlocks(k)[j].number_of_samples <= n

HeadersFresh(k) ==
    /\ disk[k].data.header.number_of_entries = Len(SegBlocks(k))
    /\ disk[k].inds.header.number_of_entries = Len(SegEntries(k))
    /\ Len(SegEntries(k)) = Len(SegBlocks(k))
    /\ disk[k].data.header.maximum_entry_size = LargestBlockIn(k)
    /\ SegBlocks(k) # <<>> =>
          /\ disk[k].data.header.end_time = Last(SegBlocks(k)).start_time
                 + BlockDuration(source_version, Last(SegBlocks(k)).number_of_samples,
                                 md2.sample_period)
          /\ disk[k].inds.header.end_time = disk[k].data.header.end_time
    /\ disk[k].data.header.body_CRC = CRC_calculate(SegBlocks(k))
    /\ disk[k].inds.header.body_CRC = CRC_calculate(SegEntries(k))

CursorsAtAppendOffsets(k) ==
    /\ disk[k].data.cursor = cs.data_file_offset
    /\ disk[k].inds.cursor = cs.inds_file_offset
    /\ cs.data_file_offset = UNIVERSAL_HEADER_BYTES + BlockBytesIn(k)
    /\ cs.inds_file_offset = UNIVERSAL_HEADER_BYTES + TIME_SERIES_INDEX_BYTES * Len(SegEntries(k))

C35_HeadersFreshOnReturn ==
    pc \in {"open", "closed"} => HeadersFresh(Len(disk)) /\ CursorsAtAppendOffsets(Len(disk))

\* an open channel whose current segment holds two blocks of different
\* sizes, a sample waiting in the buffer
C35_Witness ==
    /\ pc = "open"
    /\ Len(SegBlocks(Len(disk))) = 2
    /\ SegBlocks(Len(disk))[1].number_of_samples # SegBlocks(Len(disk))[2].number_of_samples
    /\ HeadersFresh(Len(disk)) /\ CursorsAtAppendOffsets(Len(disk))
    /\ disk[Len(disk)].data.cursor > UNIVERSAL_HEADER_BYTES

(***************************************************************************)
(* C36  buffer bound.  For every input with non-decreasing timestamps, the *)
(* samples held in the raw buffer never exceed the capacity allocated at   *)
(* initialize, 2 * S * F samples, also when timestamps repeat or samples   *)
(* arrive more than twice as densely as the sampling frequency says.       *)
(***************************************************************************)
C36_BufferBound ==
    pc \in {"open", "closed", "crashed"} => Len(cs.raw) <= BufferCapacity

\* five samples with one timestamp have been stored in a buffer of four
C36_Witness ==
    /\ pc \in {"open", "crashed"}
    /\ Len(ingested) = BufferCapacity + 1
    /\ \A i \in 1..Len(ingested) : ingested[i].time = ingested[1].time
    /\ Len(cs.raw) = BufferCapacity + 1


(***************************************************************************)
(* C37  block-boundary invariant.  After write has ingested a sample, the  *)
(* sample's timestamp lies in [block_boundary, block_boundary +            *)
(* block_interval): a cut made by the interval test never leaves           *)
(* block_boundary more than one interval behind the sample.                *)
(***************************************************************************)
\* write was the last call to touch the block state: there are samples
\* and no flush has cleared block_hdr_time and block_boundary since
AfterIngest == pc = "open" /\ ingested # <<>> /\ Len(ingested) \notin flushedAt

BoundaryLag == Last(ingested).time - cs.block_boundary

C37_BoundaryInvariant ==
    AfterIngest => 0 <= BoundaryLag /\ BoundaryLag < md2.block_interval

\* after two samples a period apart and a pause of three periods, the
\* interval test has cut the block and block_boundary is still a whole
\* block interval behind the third sample
C37_Witness ==
    /\ AfterIngest /\ Len(ingested) = 3
    /\ ingested[2].time = ingested[1].time + SamplePeriod
    /\ ingested[3].time = ingested[2].time + SlowGap
    /\ Len(AllBlocks) = 1 /\ cs.discontinuity_flag = 0
    /\ cs.block_boundary = ingested[1].time + md2.block_interval
    /\ BoundaryLag = md2.block_interval


(***************************************************************************)
(* C38  rollover progress.  With anonymization off, after a rollover made  *)
(* for a block that starts at T the rescheduled next_segment_start_time is *)
(* later than T, and the block that makes the following rollover starts at *)
(* least num_secs_per_segment seconds after T; also when the input holds a *)
(* gap longer than a segment.                                              *)
(***************************************************************************)
\* the start time of the block that opened segment k by a rollover
RolloverTime(k) == SegBlocks(k)[1].start_time

C38_RolloverProgress ==
    (pc \in {"open", "closed"} /\ ~RTO_on /\ Len(disk) >= 2) =>
        /\ cs.next_segment_start_time > RolloverTime(Len(disk))
        /\ \A k \in 2..(Len(disk) - 1) :
              RolloverTime(k + 1) - RolloverTime(k) >= cs.num_secs_per_segment * TicksPerSecond

\* part_001 after a gap of 2^32 us, longer than the segment: the block
\* behind the gap has opened a segment and next_segment_start_time, moved
\* on by one segment length, is still earlier than that block
C38_Witness ==
    /\ source_version = "part_001" /\ pc \in {"open", "closed"} /\ ~RTO_on
    /\ Len(disk) = 2
    /\ \E i \in 1..(Len(ingested) - 1) :
          /\ ingested[i + 1].time - ingested[i].time > cs.num_secs_per_segment * TicksPerSecond
          /\ RolloverTime(2) = ingested[i + 1].time
    /\ cs.next_segment_start_time
          = AllBlocks[1].start_time + 2 * (cs.num_secs_per_segment * TicksPerSecond)
    /\ cs.next_segment_start_time <= RolloverTime(2)


(***************************************************************************)
(* C39  manifest content.  After any sequence of channel registrations     *)
(* made one after the other in one session (no passwords), the body of the *)
(* manifest holds one entry for each distinct channel name, in the order   *)
(* in which the names were first registered; number_of_entries of its      *)
(* header is the number of those entries and body_CRC is the CRC of the    *)
(* body.                                                                   *)
(***************************************************************************)
\* the distinct names of a list of registrations, in the order of their
\* first registration
RECURSIVE FirstRegistrations(_)
FirstRegistrations(calls) ==
    IF calls = <<>> THEN <<>>
    ELSE LET before == FirstRegistrations(SubSeq(calls, 1, Len(calls) - 1))
         IN  IF \E i \in 1..Len(before) : before[i] = Last(calls)
             THEN before ELSE Append(before, Last(calls))

\* the pieces of the manifest behind its universal header
MefdBody == SubSeq(mefd.chunks, 2, Len(mefd.chunks))

C39_ManifestContent ==
    callers[1].calls # <<>> =>
        LET names == FirstRegistrations(callers[1].calls)
        IN  /\ mefd.exists
            /\ mefd.chunks[1].unit = "header"
            /\ MefdBody = [i \in 1..Len(names) |-> FileNameOutput(names[i])]
            /\ mefd.chunks[1].number_of_entries = Len(MefdBody)
            /\ mefd.chunks[1].maximum_entry_size = MEF_FULL_FILE_NAME_BYTES
            /\ mefd.chunks[1].body_CRC = CRC_calculate(MefdBody)

\* four registrations of three names, one of them a second time: the
\* manifest lists the three in the order they came first
C39_Witness ==
    /\ callers[1].calls = <<"cosine-test", "sine-test", "cosine-test", "ecg">>
    /\ MefdBody = <<FileNameOutput("cosine-test"), FileNameOutput("sine-test"),
                    FileNameOutput("ecg")>>
    /\ mefd.chunks[1].number_of_entries = 3
    /\ mefd.chunks[1].body_CRC = CRC_calculate(MefdBody)


(***************************************************************************)
(* C40  manifest header CRC.  After update_mefd_file has created the       *)
(* manifest or appended an entry to it, the header_CRC in the manifest's   *)
(* universal header is the CRC of the bytes of that header that follow the *)
(* CRC field.                                                              *)
(***************************************************************************)
C40_ManifestHeaderCRC ==
    callers[1].calls # <<>> =>
        /\ mefd.exists /\ mefd.chunks[1].unit = "header"
        /\ mefd.chunks[1].header_CRC = CRC_calculate(HeaderBytesAfterCRC(mefd.chunks[1]))

\* a manifest of two entries, created by one call and extended by the
\* next, whose header_CRC is the CRC of what lay on the stack behind mefd_uh
C40_Witness ==
    /\ Len(callers[1].calls) = 2
    /\ mefd.exists /\ Len(mefd.chunks) = 3
    /\ mefd.chunks[1].unit = "header"
    /\ mefd.chunks[1].number_of_entries = 2
    /\ \E g \in Uninitialised : mefd.chunks[1].header_CRC = MefdHeaderCRC(g)
    /\ mefd.chunks[1].header_CRC # CRC_calculate(HeaderBytesAfterCRC(mefd.chunks[1]))

====
